---- MODULE Spec2Model ----
(***************************************************************************)
(* View-transform and interaction engine of iced-plotter.                  *)
(*                                                                         *)
(* Numbers.  The program computes in f32.  The model computes in fixed     *)
(* point: a data-space coordinate is an integer number of 1/1000 units     *)
(* (so the 0.001 of is_out_of_bounds is 1), a screen coordinate is an      *)
(* integer number of pixels, a time is an integer number of milliseconds   *)
(* and a dimensionless fraction (boundary_padding, zoom_speed,             *)
(* elastic_limit, a scroll amount, a zoom factor, the animation's t) is an *)
(* integer number of thousandths.  A product with a fraction and a         *)
(* quotient round towards minus infinity.                                  *)
(*                                                                         *)
(* Option<T> is a sequence: None is << >> and Some(v) is <<v>>.            *)
(* A Point is <<x, y>> and a range (f32, f32) is <<lo, hi>>.               *)
(***************************************************************************)
EXTENDS Integers, Sequences, FiniteSets, TLC

VARIABLES
    interaction,          \* Plotter.interaction : InteractionConfig
    on_view_change,       \* Plotter.on_view_change.is_some()
    bounds,               \* the widget's layout Rectangle handed to update()
    view_state,           \* the ViewState owned by the application
    cursor,               \* the mouse position (absolute), as the host knows it
    now,                  \* std::time::Instant::now(), in ms since start
    interaction_mode,     \* PlotterState.interaction_mode
    drag_start,           \* PlotterState.drag_start
    drag_start_view,      \* PlotterState.drag_start_view
    last_cursor,          \* PlotterState.last_cursor
    last_click_time,      \* PlotterState.last_click_time
    modifiers,            \* PlotterState.modifiers.control()
    zoom_select_current,  \* PlotterState.zoom_select_current
    elastic_animation,    \* PlotterState.elastic_animation
    action,               \* what the last update() call returned (None after a clock step)
    view_changes,         \* number of gestures that have changed the view so far
    drag_counted,         \* whether the drag in progress is among them
    fn_args,              \* the arguments of a helper called on its own
    fn_result             \* and what it returned

\* the variables of the widget and its host
widgetvars == <<interaction, on_view_change, bounds, view_state, cursor, now,
                interaction_mode, drag_start, drag_start_view, last_cursor,
                last_click_time, modifiers, zoom_select_current,
                elastic_animation, action, view_changes, drag_counted>>
\* the variables of a helper's call
fnvars == <<fn_args, fn_result>>
vars == <<interaction, on_view_change, bounds, view_state, cursor, now,
          interaction_mode, drag_start, drag_start_view, last_cursor,
          last_click_time, modifiers, zoom_select_current, elastic_animation,
          action, view_changes, drag_counted, fn_args, fn_result>>

-----------------------------------------------------------------------------
(* Bounds of the model *)

\* gestures that change the view: a drag (however many moves), a wheel step,
\* a zoom selection, a double-click
MaxViewChanges == 1
\* clock ticks of ClockStepMs after which the clock only runs for an animation
MaxClockTicks == 2

\* ms the clock advances in one step
ClockStepMs == 150

-----------------------------------------------------------------------------
(* Option and arithmetic helpers *)

None == << >>
Some(v) == <<v>>
IsSome(o) == o # << >>
Unwrap(o) == o[1]
UnwrapOr(o, d) == IF o # << >> THEN o[1] ELSE d

\* a * f for a fraction f given in thousandths
Mul(a, f) == (a * f) \div 1000
\* a / 2.0 (exact in f32; the model's bounds keep it exact)
Half(a) == a \div 2
Abs(a) == IF a < 0 THEN 0 - a ELSE a
Min2(a, b) == IF a < b THEN a ELSE b
Max2(a, b) == IF a > b THEN a ELSE b
Clamp(v, lo, hi) == IF v < lo THEN lo ELSE IF v > hi THEN hi ELSE v

\* exp(-r) in thousandths for r >= 0 in thousandths: exp sampled every 0.25,
\* linear in between, 0 from r = 7.0 on (as f32's 1.0 - exp(-r) is 1.0 for
\* large r).
ExpTable ==
    <<1000, 778, 606, 472, 367, 286, 223, 173, 135, 105, 82, 63, 49, 38, 30,
      23, 18, 14, 11, 8, 6, 5, 4, 3, 2, 1, 1, 1, 0>>
ExpNeg(r) ==
    LET k == r \div 250
    IN  IF k >= 28 THEN 0
        ELSE ExpTable[k + 1]
               - ((ExpTable[k + 1] - ExpTable[k + 2]) * (r % 250)) \div 250

-----------------------------------------------------------------------------
(* Plotter options and data *)

\* PlotterOptions::default(): padding 50.0, autofit_padding 0.05
options == [padding |-> 50, autofit_padding |-> 50]

\* The series handed to the Plotter: one visible series over x in [0, 10],
\* y in [0, 5].
PlotSeriesPoints == << <<0, 0>>, <<5000, 5000>>, <<10000, 2000>> >>

RECURSIVE FoldMin(_, _, _), FoldMax(_, _, _)
FoldMin(pts, k, i) ==
    IF i > Len(pts) THEN << >>
    ELSE LET rest == FoldMin(pts, k, i + 1)
         IN  IF rest = << >> THEN <<pts[i][k]>>
             ELSE <<Min2(pts[i][k], rest[1])>>
FoldMax(pts, k, i) ==
    IF i > Len(pts) THEN << >>
    ELSE LET rest == FoldMax(pts, k, i + 1)
         IN  IF rest = << >> THEN <<pts[i][k]>>
             ELSE <<Max2(pts[i][k], rest[1])>>

\* Plotter::compute_data_ranges over a flat list of visible points
compute_data_ranges(pts) ==
    IF Len(pts) = 0 THEN << <<0, 1000>>, <<0, 1000>> >>
    ELSE LET x_min == FoldMin(pts, 1, 1)[1]
             x_max == FoldMax(pts, 1, 1)[1]
             y_min == FoldMin(pts, 2, 1)[1]
             y_max == FoldMax(pts, 2, 1)[1]
         IN  IF y_max - y_min = 0
             THEN << <<x_min, x_max>>, <<y_min - 500, y_max + 500>> >>
             ELSE << <<x_min, x_max>>, <<y_min, y_max>> >>

-----------------------------------------------------------------------------
(* Series (plotter.rs) *)

\* PlotPoints::Owned / Borrowed: the points as they are
Owned(pts) == [kind |-> "Owned", pts |-> pts]
\* PlotPoints::Generator: a function sampled at `points` places over x_range
Generator(function, x_range, points) ==
    [kind |-> "Generator", function |-> function, x_range |-> x_range,
     points |-> points]

\* the functions handed to generators: y = x and y = 3
generator_function(name, x) == IF name = "Line" THEN x ELSE 3000

\* the i-th sample (i from 0) of a generator
generator_point(g, i) ==
    LET span == g.x_range[2] - g.x_range[1]
        x == g.x_range[1] + (i * span) \div Max2(g.points - 1, 1)
    IN  <<x, generator_function(g.function, x)>>

\* the points of one series, in order
series_points(s) ==
    IF s.points.kind = "Owned" THEN s.points.pts
    ELSE [i \in 1..s.points.points |-> generator_point(s.points, i - 1)]

\* every series' points, hidden or not
RECURSIVE visible_points_from_IgnoringHidden(_, _, _)
visible_points_from_IgnoringHidden(series, hidden, idx) ==
    IF idx >= Len(series) THEN << >>
    ELSE series_points(series[idx + 1]) \o visible_points_from_IgnoringHidden(series, hidden, idx + 1)

\* the points of the series whose index (from 0) is not in hidden, from idx on
RECURSIVE visible_points_from(_, _, _)
visible_points_from(series, hidden, idx) ==
    IF idx >= Len(series) THEN << >>
    ELSE IF idx \in hidden THEN visible_points_from(series, hidden, idx + 1)
    ELSE series_points(series[idx + 1]) \o visible_points_from(series, hidden, idx + 1)

\* Plotter::compute_data_ranges for a Plotter with these series and this
\* legend_state.hidden_series
plotter_compute_data_ranges(series, hidden) ==
    compute_data_ranges(visible_points_from(series, hidden, 0))

-----------------------------------------------------------------------------
(* Ticks (ticks.rs) *)

\* TickConfig and its Default
TickConfig(min_ticks, max_ticks) == [min_ticks |-> min_ticks, max_ticks |-> max_ticks]
TickConfigDefault == TickConfig(4, 10)

\* 10^floor(log10(rough_step)) for rough_step = span / target: the largest
\* power of ten, from 0.001 up, that is at most span / target
RECURSIVE tick_magnitude(_, _, _)
tick_magnitude(span, target, m) ==
    IF 10 * m * target > span THEN m ELSE tick_magnitude(span, target, 10 * m)

\* the step compute_ticks takes for lo < hi
tick_step(lo, hi, config) ==
    LET target == Max2((config.min_ticks + config.max_ticks) \div 2, 2)
        span == hi - lo
        magnitude == tick_magnitude(span, target, 1)
        \* normalized = span / (target * magnitude), compared with 1, 2 and 5
        nice_factor == IF span <= 1 * magnitude * target THEN 1
                       ELSE IF span <= 2 * magnitude * target THEN 2
                       ELSE IF span <= 5 * magnitude * target THEN 5
                       ELSE 10
    IN  nice_factor * magnitude

\* the loop of compute_ticks: v, v + step, ... while v <= limit
RECURSIVE ticks_from(_, _, _)
ticks_from(v, limit, step) ==
    IF v <= limit THEN <<v>> \o ticks_from(v + step, limit, step) ELSE << >>

\* compute_ticks taking its arguments as lo and hi in the order given
compute_ticks_NoSwap(range_min, range_max, config) ==
    IF range_max = range_min THEN <<range_min>>
    ELSE LET lo == range_min
             hi == range_max
             step == tick_step(lo, hi, config)
             start == (lo \div step) * step
         IN  ticks_from(start, hi + Mul(step, 1), step)

\* compute_ticks starting at the first multiple of the step above lo
compute_ticks_StartAbove(range_min, range_max, config) ==
    IF range_max = range_min THEN <<range_min>>
    ELSE LET lo == Min2(range_min, range_max)
             hi == Max2(range_min, range_max)
             step == tick_step(lo, hi, config)
             start == ((lo \div step) + 1) * step
         IN  ticks_from(start, hi + Mul(step, 1), step)

\* compute_ticks
compute_ticks(range_min, range_max, config) ==
    IF range_max = range_min THEN <<range_min>>
    ELSE LET lo == Min2(range_min, range_max)
             hi == Max2(range_min, range_max)
             step == tick_step(lo, hi, config)
             start == (lo \div step) * step
         IN  ticks_from(start, hi + Mul(step, 1), step)

-----------------------------------------------------------------------------
(* Coordinate conversion and range helpers (shader.rs) *)

\* screen_to_data: screen is a Point, rect the widget bounds
screen_to_data(screen, rect, view_x, view_y, padding) ==
    LET plot_width == rect.width - 2 * padding
        plot_height == rect.height - 2 * padding
        x_off == screen[1] - rect.x - padding
        y_off == screen[2] - rect.y - padding
        x == view_x[1] + (x_off * (view_x[2] - view_x[1])) \div plot_width
        y == view_y[1]
               + ((plot_height - y_off) * (view_y[2] - view_y[1])) \div plot_height
    IN  <<x, y>>

\* Uniforms as PlotterPrimitive::new fills them from the widget bounds, the
\* options and the view ranges
Uniforms(rect, padding, view_x, view_y) ==
    [viewport_size |-> <<rect.width, rect.height>>,
     padding |-> <<padding, padding>>,
     x_range |-> view_x, y_range |-> view_y]

\* to_screen without the flip of the y axis
to_screen_Unflipped(x, y, uniforms) ==
    LET plot_width == uniforms.viewport_size[1] - 2 * uniforms.padding[1]
        plot_height == uniforms.viewport_size[2] - 2 * uniforms.padding[2]
        x_range == uniforms.x_range
        y_range == uniforms.y_range
    IN  <<uniforms.padding[1]
            + ((x - x_range[1]) * plot_width) \div (x_range[2] - x_range[1]),
          uniforms.padding[2]
            + ((y - y_range[1]) * plot_height) \div (y_range[2] - y_range[1])>>

\* the to_screen closure of generate_line_vertices: data to screen pixels
to_screen(x, y, uniforms) ==
    LET plot_width == uniforms.viewport_size[1] - 2 * uniforms.padding[1]
        plot_height == uniforms.viewport_size[2] - 2 * uniforms.padding[2]
        x_range == uniforms.x_range
        y_range == uniforms.y_range
    IN  <<uniforms.padding[1]
            + ((x - x_range[1]) * plot_width) \div (x_range[2] - x_range[1]),
          uniforms.padding[2]
            + ((y_range[2] - y) * plot_height) \div (y_range[2] - y_range[1])>>

\* clamp_range_to_bounds shifting at the low side only
clamp_range_to_bounds_LowOnly(range, bnds, padding_frac) ==
    IF bnds = None THEN range
    ELSE
    LET b_lo == bnds[1][1]
        b_hi == bnds[1][2]
        pad == Mul(b_hi - b_lo, padding_frac)
        min_bound == b_lo - pad
        max_bound == b_hi + pad
        bounds_size == max_bound - min_bound
        range_size == range[2] - range[1]
    IN  IF range_size > bounds_size
        THEN LET center == Half(min_bound + max_bound)
             IN  <<center - Half(bounds_size), center + Half(bounds_size)>>
        ELSE IF range[1] < min_bound THEN <<min_bound, min_bound + range_size>>
        ELSE range

clamp_range_to_bounds(range, bnds, padding_frac) ==
    IF bnds = None THEN range
    ELSE
    LET b_lo == bnds[1][1]
        b_hi == bnds[1][2]
        pad == Mul(b_hi - b_lo, padding_frac)
        min_bound == b_lo - pad
        max_bound == b_hi + pad
        bounds_size == max_bound - min_bound
        range_size == range[2] - range[1]
    IN  IF range_size > bounds_size
        THEN LET center == Half(min_bound + max_bound)
             IN  <<center - Half(bounds_size), center + Half(bounds_size)>>
        ELSE LET lo1 == IF range[1] < min_bound THEN min_bound ELSE range[1]
                 hi1 == IF range[1] < min_bound THEN lo1 + range_size ELSE range[2]
                 hi2 == IF hi1 > max_bound THEN max_bound ELSE hi1
                 lo2 == IF hi1 > max_bound THEN hi2 - range_size ELSE lo1
             IN  <<lo2, hi2>>

\* apply_elastic_resistance letting the range through as it is
apply_elastic_resistance_Undamped(range, bnds, padding_frac, elastic_limit) == range

\* apply_elastic_resistance
apply_elastic_resistance(range, bnds, padding_frac, elastic_limit) ==
    IF bnds = None THEN range
    ELSE
    LET lo == range[1]
        hi == range[2]
        b_lo == bnds[1][1]
        b_hi == bnds[1][2]
        pad == Mul(b_hi - b_lo, padding_frac)
        min_bound == b_lo - pad
        max_bound == b_hi + pad
        range_size == hi - lo
        max_overscroll == Mul(range_size, elastic_limit)
        Damped(over) ==
            IF max_overscroll <= 0 THEN 0
            ELSE Mul(max_overscroll, 1000 - ExpNeg((over * 1000) \div max_overscroll))
    IN  IF lo < min_bound
        THEN LET new_lo == min_bound - Damped(min_bound - lo)
             IN  <<new_lo, new_lo + range_size>>
        ELSE IF hi > max_bound
        THEN LET new_hi == max_bound + Damped(hi - max_bound)
             IN  <<new_hi - range_size, new_hi>>
        ELSE <<lo, hi>>

\* the 0.001 of is_out_of_bounds
OutOfBoundsTolerance == 1

\* is_out_of_bounds looking at the low side only
is_out_of_bounds_LowOnly(range, bnds, padding_frac) ==
    IF bnds = None THEN FALSE
    ELSE range[1] < bnds[1][1] - Mul(bnds[1][2] - bnds[1][1], padding_frac)
                      - OutOfBoundsTolerance

is_out_of_bounds(range, bnds, padding_frac) ==
    IF bnds = None THEN FALSE
    ELSE
    LET b_lo == bnds[1][1]
        b_hi == bnds[1][2]
        pad == Mul(b_hi - b_lo, padding_frac)
        min_bound == b_lo - pad
        max_bound == b_hi + pad
    IN  \/ range[1] < min_bound - OutOfBoundsTolerance
        \/ range[2] > max_bound + OutOfBoundsTolerance

\* no easing: the animation's t as it is
ease_linear(t) == Clamp(t, 0, 1000)

\* ease_out_cubic on t in thousandths
ease_out_cubic(t) ==
    LET tc == Clamp(t, 0, 1000)
    IN  1000 - ((1000 - tc) * (1000 - tc) * (1000 - tc)) \div 1000000

lerp_range(from, to, t) ==
    LET e == ease_out_cubic(t)
    IN  <<from[1] + Mul(to[1] - from[1], e), from[2] + Mul(to[2] - from[2], e)>>

-----------------------------------------------------------------------------
(* Range resolution (plotter.rs) *)

\* resolve_view_ranges clamping against configured hard bounds only
resolve_view_ranges_HardBoundsOnly(vs, inter, data, enforce_bounds) ==
    LET af == options.autofit_padding
        Axis(range, pan, hard, d) ==
            IF IsSome(range)
            THEN IF enforce_bounds /\ inter.elastic /\ pan
                 THEN clamp_range_to_bounds(Unwrap(range), hard, inter.boundary_padding)
                 ELSE Unwrap(range)
            ELSE LET margin == Mul(d[2] - d[1], af)
                 IN  <<d[1] - margin, d[2] + margin>>
    IN  <<Axis(vs.x_range, inter.pan_x, inter.x_bounds, data[1]),
          Axis(vs.y_range, inter.pan_y, inter.y_bounds, data[2]),
          data[1], data[2]>>

\* Plotter::resolve_view_ranges: <<view_x, view_y, data_x, data_y>>; data is
\* what its call of compute_data_ranges returns
resolve_view_ranges(vs, inter, data, enforce_bounds) ==
    LET data_x == data[1]
        data_y == data[2]
        af == options.autofit_padding
        Axis(range, pan, hard, d) ==
            IF IsSome(range)
            THEN IF enforce_bounds /\ inter.elastic /\ pan
                 THEN clamp_range_to_bounds(
                          Unwrap(range),
                          IF IsSome(hard) THEN hard ELSE Some(d),
                          inter.boundary_padding)
                 ELSE Unwrap(range)
            ELSE LET margin == Mul(d[2] - d[1], af)
                 IN  <<d[1] - margin, d[2] + margin>>
    IN  <<Axis(vs.x_range, inter.pan_x, inter.x_bounds, data_x),
          Axis(vs.y_range, inter.pan_y, inter.y_bounds, data_y),
          data_x, data_y>>

-----------------------------------------------------------------------------
(* The geometry of a frame: PlotterPrimitive::new (shader.rs) *)

\* iced::Color as <<r, g, b>> in thousandths
Black == <<0, 0, 0>>
Blue == <<0, 0, 1000>>
Red == <<1000, 0, 0>>

\* ColorMode
Solid(c) == [mode |-> "Solid", color |-> c]
ValueGradient(low, high, values) ==
    [mode |-> "ValueGradient", low |-> low, high |-> high, values |-> values]
IndexGradient(start, end) == [mode |-> "IndexGradient", start |-> start, end |-> end]
Colormap(name, values) == [mode |-> "Colormap", name |-> name, values |-> values]

\* lerp_color: t is clamped to [0, 1]
lerp_color(a, b, t) ==
    LET tc == Clamp(t, 0, 1000)
    IN  <<a[1] + Mul(b[1] - a[1], tc),
          a[2] + Mul(b[2] - a[2], tc),
          a[3] + Mul(b[3] - a[3], tc)>>

\* the colour stops <<t, colour>> of sample_viridis, sample_plasma,
\* sample_turbo and sample_heat
colormap_palette(name) ==
    CASE name = "Viridis" ->
             << <<0, <<267, 4, 329>> >>, <<250, <<282, 140, 458>> >>,
                <<500, <<204, 286, 469>> >>, <<600, <<128, 400, 369>> >>,
                <<750, <<527, 510, 149>> >>, <<1000, <<993, 906, 144>> >> >>
      [] name = "Plasma" ->
             << <<0, <<50, 30, 530>> >>, <<250, <<275, 5, 610>> >>,
                <<500, <<553, 27, 416>> >>, <<600, <<764, 190, 217>> >>,
                <<750, <<960, 380, 113>> >>, <<1000, <<940, 975, 131>> >> >>
      [] name = "Turbo" ->
             << <<0, <<180, 70, 450>> >>, <<200, <<0, 300, 740>> >>,
                <<400, <<0, 780, 870>> >>, <<500, <<0, 980, 600>> >>,
                <<600, <<850, 970, 110>> >>, <<800, <<970, 430, 0>> >>,
                <<1000, <<880, 0, 0>> >> >>
      [] name = "Heat" ->
             << <<0, <<0, 0, 0>> >>, <<250, <<500, 0, 0>> >>,
                <<500, <<1000, 0, 0>> >>, <<750, <<1000, 500, 0>> >>,
                <<1000, <<1000, 1000, 0>> >> >>

\* the loop of sample_palette from stop i on: the first pair of stops t lies
\* between
RECURSIVE palette_segment(_, _, _)
palette_segment(palette, t, i) ==
    IF i >= Len(palette) THEN palette[Len(palette)][2]
    ELSE IF t >= palette[i][1] /\ t <= palette[i + 1][1]
         THEN lerp_color(palette[i][2], palette[i + 1][2],
                         ((t - palette[i][1]) * 1000)
                             \div (palette[i + 1][1] - palette[i][1]))
         ELSE palette_segment(palette, t, i + 1)

\* sample_palette
sample_palette(palette, t) ==
    LET tc == Clamp(t, 0, 1000)
    IN  IF tc <= palette[1][1] THEN palette[1][2]
        ELSE IF tc >= palette[Len(palette)][1] THEN palette[Len(palette)][2]
        ELSE palette_segment(palette, tc, 1)

\* ColormapName::sample taking t as it comes
colormap_sample_Unclamped(name, t) ==
    IF name = "Grayscale" THEN <<t, t, t>>
    ELSE sample_palette(colormap_palette(name), t)

\* ColormapName::sample
colormap_sample(name, t) ==
    LET tc == Clamp(t, 0, 1000)
    IN  IF name = "Grayscale" THEN <<tc, tc, tc>>
        ELSE sample_palette(colormap_palette(name), tc)

\* the first loop of PlotterPrimitive::new from series idx (from 0) on: every
\* point of every series as <<x, y, ColorMode>>
RECURSIVE all_points_with_colors(_, _)
all_points_with_colors(series, idx) ==
    IF idx >= Len(series) THEN << >>
    ELSE LET s == series[idx + 1]
             pts == series_points(s)
         IN  [i \in 1..Len(pts) |-> <<pts[i][1], pts[i][2], s.color>>]
                 \o all_points_with_colors(series, idx + 1)

\* series_boundaries: for each series the flat index (from 0) of its first point
series_boundaries(series) ==
    [k \in 1..Len(series) |-> Len(all_points_with_colors(SubSeq(series, 1, k - 1), 0))]

\* data_y_min and data_y_max of PlotterPrimitive::new, over every series
gradient_y_range(pwc) ==
    IF Len(pwc) = 0 THEN <<0, 1000>>
    ELSE LET ys == { pwc[i][2] : i \in 1..Len(pwc) }
             lo == CHOOSE m \in ys : \A y \in ys : m <= y
             hi == CHOOSE m \in ys : \A y \in ys : m >= y
         IN  IF hi - lo = 0 THEN <<lo - 500, hi + 500>> ELSE <<lo, hi>>

\* values[idx] of apply_color_mode indexes past the end of an explicit array:
\* the index expression panics
color_index_panics(pwc) ==
    \E i \in 1..Len(pwc) :
        /\ pwc[i][3].mode \in {"ValueGradient", "Colormap"}
        /\ IsSome(pwc[i][3].values)
        /\ i - 1 >= Len(Unwrap(pwc[i][3].values))

\* the t of a ValueGradient or Colormap point: idx is its flat index from 0
gradient_t(pwc, idx, y_min, y_max) ==
    LET color_mode == pwc[idx + 1][3]
        y == pwc[idx + 1][2]
        values == color_mode.values
        v == Unwrap(values)
        vs == { v[i] : i \in 1..Len(v) }
        value == IF IsSome(values) THEN v[idx + 1] ELSE y
        value_min == IF IsSome(values)
                     THEN CHOOSE m \in vs : \A e \in vs : m <= e
                     ELSE y_min
        value_max == IF IsSome(values)
                     THEN CHOOSE m \in vs : \A e \in vs : m >= e
                     ELSE y_max
    IN  IF value_max - value_min = 0 THEN 500
        ELSE ((value - value_min) * 1000) \div (value_max - value_min)

\* the colour apply_color_mode gives the point of flat index idx
point_color(pwc, idx, y_min, y_max) ==
    LET color_mode == pwc[idx + 1][3]
    IN  CASE color_mode.mode = "Solid" -> color_mode.color
          [] color_mode.mode = "ValueGradient" ->
                 lerp_color(color_mode.low, color_mode.high,
                            gradient_t(pwc, idx, y_min, y_max))
          [] color_mode.mode = "IndexGradient" ->
                 lerp_color(color_mode.start, color_mode.end,
                            IF Len(pwc) > 1 THEN (idx * 1000) \div (Len(pwc) - 1)
                            ELSE 500)
          [] color_mode.mode = "Colormap" ->
                 colormap_sample(color_mode.name, gradient_t(pwc, idx, y_min, y_max))

\* apply_color_mode: the RawPoints (position in data coordinates, colour)
apply_color_mode(pwc, y_min, y_max) ==
    [i \in 1..Len(pwc) |->
        [position |-> <<pwc[i][1], pwc[i][2]>>,
         color |-> point_color(pwc, i - 1, y_min, y_max)]]

\* the segment from point window_idx to the next is shorter than 0.001
\* pixels on screen: each of its components is (at the resolution of the
\* model the two points then coincide)
segment_too_short(points, window_idx, uniforms) ==
    LET p0 == points[window_idx + 1].position
        p1 == points[window_idx + 2].position
        plot_width == uniforms.viewport_size[1] - 2 * uniforms.padding[1]
        plot_height == uniforms.viewport_size[2] - 2 * uniforms.padding[2]
        span_x == uniforms.x_range[2] - uniforms.x_range[1]
        span_y == uniforms.y_range[2] - uniforms.y_range[1]
    IN  /\ Abs(p1[1] - p0[1]) * plot_width <= (span_x - 1) \div 1000
        /\ Abs(p1[2] - p0[2]) * plot_height <= (span_y - 1) \div 1000

\* the six vertices pushed for one window: the quad around the segment from
\* point window_idx to point window_idx + 1, in the colour of the first
line_quad(points, window_idx, uniforms) ==
    LET p0 == points[window_idx + 1]
        p1 == points[window_idx + 2]
    IN  [from |-> window_idx, to |-> window_idx + 1,
         s0 |-> to_screen(p0.position[1], p0.position[2], uniforms),
         s1 |-> to_screen(p1.position[1], p1.position[2], uniforms),
         color |-> p0.color]

\* the inner loop: for window_idx in start..end_idx - 1
RECURSIVE window_quads(_, _, _, _)
window_quads(points, window_idx, end_idx, uniforms) ==
    IF window_idx >= end_idx - 1 THEN << >>
    ELSE (IF segment_too_short(points, window_idx, uniforms) THEN << >>
          ELSE <<line_quad(points, window_idx, uniforms)>>)
             \o window_quads(points, window_idx + 1, end_idx, uniforms)

\* the outer loop: for series_idx in 0..series_boundaries.len()
RECURSIVE series_quads(_, _, _, _)
series_quads(points, boundaries, series_idx, uniforms) ==
    IF series_idx >= Len(boundaries) THEN << >>
    ELSE LET start_idx == boundaries[series_idx + 1]
             end_idx == IF series_idx + 1 < Len(boundaries)
                        THEN boundaries[series_idx + 2]
                        ELSE Len(points)
         IN  (IF end_idx <= start_idx + 1 THEN << >>
              ELSE window_quads(points, start_idx, end_idx, uniforms))
                 \o series_quads(points, boundaries, series_idx + 1, uniforms)

\* generate_line_vertices joining every point to the next
generate_line_vertices_OneStrip(points, boundaries, uniforms) ==
    IF Len(points) < 2 THEN << >>
    ELSE window_quads(points, 0, Len(points), uniforms)

\* generate_line_vertices: one quad (six vertices) per segment drawn
generate_line_vertices(points, boundaries, uniforms) ==
    IF Len(points) < 2 THEN << >>
    ELSE series_quads(points, boundaries, 0, uniforms)

\* PlotterPrimitive::new: the markers, the line quads and what goes with
\* them (the grid and the selection rectangle are left out); the index panic
\* of apply_color_mode ends the call
PlotterPrimitive_new(series, rect, view_x_range, view_y_range) ==
    LET pwc == all_points_with_colors(series, 0)
        boundaries == series_boundaries(series)
        data_y == gradient_y_range(pwc)
        uniforms == Uniforms(rect, options.padding, view_x_range, view_y_range)
        all_points == apply_color_mode(pwc, data_y[1], data_y[2])
    IN  IF color_index_panics(pwc) THEN [panicked |-> TRUE]
        ELSE [panicked |-> FALSE,
              points |-> all_points,
              line_vertices |-> generate_line_vertices(all_points, boundaries, uniforms),
              uniforms |-> uniforms,
              series_boundaries |-> boundaries,
              tick_info |-> [x_ticks |-> compute_ticks(view_x_range[1], view_x_range[2],
                                                       TickConfigDefault),
                             y_ticks |-> compute_ticks(view_y_range[1], view_y_range[2],
                                                       TickConfigDefault)]]

\* shader::Program::draw for the Plotter: the view ranges resolved from the
\* ViewState, then the primitive built from self.series
draw(series, hidden, vs, inter, rect) ==
    LET view == resolve_view_ranges(vs, inter,
                                    plotter_compute_data_ranges(series, hidden), FALSE)
    IN  PlotterPrimitive_new(series, rect, view[1], view[2])

-----------------------------------------------------------------------------
(* The shader program's update() (shader.rs) *)

\* shader::Action<Message>: what update() returns is None or Some(action)
ActionPublish(view) == [publish |-> Some(view), redraw |-> FALSE, capture |-> FALSE]
ActionRequestRedraw == [publish |-> None, redraw |-> TRUE, capture |-> FALSE]
ActionCapture == [publish |-> None, redraw |-> FALSE, capture |-> TRUE]
AndCapture(a) == [a EXCEPT !.capture = TRUE]

\* mouse::Cursor::position_in: the position relative to rect, if inside it
position_in(cur, rect) ==
    IF /\ rect.x <= cur[1] /\ cur[1] < rect.x + rect.width
       /\ rect.y <= cur[2] /\ cur[2] < rect.y + rect.height
    THEN Some(<<cur[1] - rect.x, cur[2] - rect.y>>)
    ELSE None

\* the PlotterState handed to update()
Session ==
    [interaction_mode |-> interaction_mode,
     drag_start |-> drag_start,
     drag_start_view |-> drag_start_view,
     last_cursor |-> last_cursor,
     last_click_time |-> last_click_time,
     modifiers |-> modifiers,
     zoom_select_current |-> zoom_select_current,
     elastic_animation |-> elastic_animation]

Ret(s, a) == [state |-> s, action |-> a]

\* has_any_interaction taken as true whatever the flags
has_any_interaction_Always == TRUE

\* the has_any_interaction of update()
has_any_interaction ==
    \/ interaction.pan_x \/ interaction.pan_y
    \/ interaction.zoom_x \/ interaction.zoom_y
    \/ interaction.double_click_to_fit \/ interaction.zoom_select

\* update() calls resolve_view_ranges without the enforce_bounds argument:
\* the ranges it works with are the unclamped ones.
PlotDataRanges == compute_data_ranges(PlotSeriesPoints)
ResolvedView == resolve_view_ranges(view_state, interaction, PlotDataRanges, FALSE)
view_x == ResolvedView[1]
view_y == ResolvedView[2]

\* the 300 ms of the double-click detection
DoubleClickMs == 300
\* the 5 px a zoom selection must exceed
ZoomSelectMinPx == 5

\* the animation block without its completion branch
ElasticBlock_NeverCompletes(s) ==
    Ret(s, IF on_view_change THEN Some(ActionPublish(view_state))
           ELSE Some(ActionRequestRedraw))

\* "Elastic spring-back animation" block; only evaluated while the animation is Some
ElasticBlock(s) ==
    LET anim == Unwrap(s.elastic_animation)
        elapsed == now - anim.start_time
        animated_x == IsSome(anim.from_x) /\ IsSome(anim.to_x)
        animated_y == IsSome(anim.from_y) /\ IsSome(anim.to_y)
    IN  IF elapsed >= anim.duration_ms
        THEN LET new_view ==
                     [x_range |-> IF animated_x THEN anim.to_x ELSE view_state.x_range,
                      y_range |-> IF animated_y THEN anim.to_y ELSE view_state.y_range]
             IN  Ret([s EXCEPT !.elastic_animation = None],
                     IF on_view_change THEN Some(ActionPublish(new_view)) ELSE None)
        ELSE LET t == (elapsed * 1000) \div anim.duration_ms
                 new_view ==
                     [x_range |-> IF animated_x
                                  THEN Some(lerp_range(Unwrap(anim.from_x), Unwrap(anim.to_x), t))
                                  ELSE view_state.x_range,
                      y_range |-> IF animated_y
                                  THEN Some(lerp_range(Unwrap(anim.from_y), Unwrap(anim.to_y), t))
                                  ELSE view_state.y_range]
             IN  Ret(s, IF on_view_change THEN Some(ActionPublish(new_view))
                        ELSE Some(ActionRequestRedraw))

\* Event::Keyboard(ModifiersChanged)
OnModifiersChanged(s, ctrl) == Ret([s EXCEPT !.modifiers = ctrl], None)

\* ButtonPressed(Left) with the Ctrl selection tested ahead of the double-click
OnButtonPressed_SelectFirst(s) ==
    LET inside == position_in(cursor, bounds)
        pos == Unwrap(inside)
        is_double == /\ interaction.double_click_to_fit
                     /\ IsSome(s.last_click_time)
                     /\ now - Unwrap(s.last_click_time) < DoubleClickMs
        s1 == IF interaction.double_click_to_fit
              THEN [s EXCEPT !.last_click_time = Some(now)]
              ELSE s
        new_view ==
            [x_range |-> IF interaction.pan_x \/ interaction.zoom_x
                         THEN None ELSE view_state.x_range,
             y_range |-> IF interaction.pan_y \/ interaction.zoom_y
                         THEN None ELSE view_state.y_range]
    IN  IF ~IsSome(inside) THEN Ret(s, None)
        ELSE IF interaction.zoom_select /\ s.modifiers
        THEN Ret([s1 EXCEPT !.interaction_mode = "ZoomSelecting",
                            !.drag_start = Some(pos),
                            !.zoom_select_current = Some(pos)],
                 Some(ActionCapture))
        ELSE IF is_double
        THEN Ret([s EXCEPT !.last_click_time = None,
                           !.interaction_mode = "Idle",
                           !.elastic_animation = None],
                 IF on_view_change
                 THEN Some(AndCapture(ActionPublish(new_view)))
                 ELSE Some(ActionCapture))
        ELSE IF interaction.pan_x \/ interaction.pan_y
        THEN Ret([s1 EXCEPT !.elastic_animation = None,
                            !.interaction_mode = "Panning",
                            !.drag_start = Some(pos),
                            !.drag_start_view =
                                Some([x_range |-> Some(view_x), y_range |-> Some(view_y)])],
                 Some(ActionCapture))
        ELSE Ret(s1, None)

\* ButtonPressed starting a pan ahead of the Ctrl test
OnButtonPressed_PanFirst(s) ==
    LET inside == position_in(cursor, bounds)
        pos == Unwrap(inside)
        is_double == /\ interaction.double_click_to_fit
                     /\ IsSome(s.last_click_time)
                     /\ now - Unwrap(s.last_click_time) < DoubleClickMs
        s1 == IF interaction.double_click_to_fit
              THEN [s EXCEPT !.last_click_time = Some(now)]
              ELSE s
    IN  IF ~IsSome(inside) THEN Ret(s, None)
        ELSE IF is_double
        THEN LET new_view ==
                     [x_range |-> IF interaction.pan_x \/ interaction.zoom_x
                                  THEN None ELSE view_state.x_range,
                      y_range |-> IF interaction.pan_y \/ interaction.zoom_y
                                  THEN None ELSE view_state.y_range]
             IN  Ret([s EXCEPT !.last_click_time = None,
                               !.interaction_mode = "Idle",
                               !.elastic_animation = None],
                     IF on_view_change
                     THEN Some(AndCapture(ActionPublish(new_view)))
                     ELSE Some(ActionCapture))
        ELSE IF interaction.pan_x \/ interaction.pan_y
        THEN Ret([s1 EXCEPT !.elastic_animation = None,
                            !.interaction_mode = "Panning",
                            !.drag_start = Some(pos),
                            !.drag_start_view =
                                Some([x_range |-> Some(view_x), y_range |-> Some(view_y)])],
                 Some(ActionCapture))
        ELSE IF interaction.zoom_select /\ s1.modifiers
        THEN Ret([s1 EXCEPT !.interaction_mode = "ZoomSelecting",
                            !.drag_start = Some(pos),
                            !.zoom_select_current = Some(pos)],
                 Some(ActionCapture))
        ELSE Ret(s1, None)

\* ButtonPressed(Left) starting a pan without the drag_start_view snapshot
OnButtonPressed_NoSnapshot(s) ==
    LET inside == position_in(cursor, bounds)
        pos == Unwrap(inside)
        is_double == /\ interaction.double_click_to_fit
                     /\ IsSome(s.last_click_time)
                     /\ now - Unwrap(s.last_click_time) < DoubleClickMs
        s1 == IF interaction.double_click_to_fit
              THEN [s EXCEPT !.last_click_time = Some(now)]
              ELSE s
    IN  IF ~IsSome(inside) THEN Ret(s, None)
        ELSE IF is_double
        THEN LET new_view ==
                     [x_range |-> IF interaction.pan_x \/ interaction.zoom_x
                                  THEN None ELSE view_state.x_range,
                      y_range |-> IF interaction.pan_y \/ interaction.zoom_y
                                  THEN None ELSE view_state.y_range]
             IN  Ret([s EXCEPT !.last_click_time = None,
                               !.interaction_mode = "Idle",
                               !.elastic_animation = None],
                     IF on_view_change
                     THEN Some(AndCapture(ActionPublish(new_view)))
                     ELSE Some(ActionCapture))
        ELSE IF interaction.zoom_select /\ s1.modifiers
        THEN Ret([s1 EXCEPT !.interaction_mode = "ZoomSelecting",
                            !.drag_start = Some(pos),
                            !.zoom_select_current = Some(pos)],
                 Some(ActionCapture))
        ELSE IF interaction.pan_x \/ interaction.pan_y
        THEN Ret([s1 EXCEPT !.elastic_animation = None,
                            !.interaction_mode = "Panning",
                            !.drag_start = Some(pos)],
                 Some(ActionCapture))
        ELSE Ret(s1, None)

\* Event::Mouse(ButtonPressed(Left))
OnButtonPressed(s) ==
    LET inside == position_in(cursor, bounds)
        pos == Unwrap(inside)
        is_double == /\ interaction.double_click_to_fit
                     /\ IsSome(s.last_click_time)
                     /\ now - Unwrap(s.last_click_time) < DoubleClickMs
        s1 == IF interaction.double_click_to_fit
              THEN [s EXCEPT !.last_click_time = Some(now)]
              ELSE s
    IN  IF ~IsSome(inside) THEN Ret(s, None)
        ELSE IF is_double
        THEN LET new_view ==
                     [x_range |-> IF interaction.pan_x \/ interaction.zoom_x
                                  THEN None ELSE view_state.x_range,
                      y_range |-> IF interaction.pan_y \/ interaction.zoom_y
                                  THEN None ELSE view_state.y_range]
             IN  Ret([s EXCEPT !.last_click_time = None,
                               !.interaction_mode = "Idle",
                               !.elastic_animation = None],
                     IF on_view_change
                     THEN Some(AndCapture(ActionPublish(new_view)))
                     ELSE Some(ActionCapture))
        ELSE IF interaction.zoom_select /\ s1.modifiers
        THEN Ret([s1 EXCEPT !.interaction_mode = "ZoomSelecting",
                            !.drag_start = Some(pos),
                            !.zoom_select_current = Some(pos)],
                 Some(ActionCapture))
        ELSE IF interaction.pan_x \/ interaction.pan_y
        THEN Ret([s1 EXCEPT !.elastic_animation = None,
                            !.interaction_mode = "Panning",
                            !.drag_start = Some(pos),
                            !.drag_start_view =
                                Some([x_range |-> Some(view_x), y_range |-> Some(view_y)])],
                 Some(ActionCapture))
        ELSE Ret(s1, None)

\* ButtonReleased(Left) in InteractionMode::Panning
ReleasePanning(s) ==
    LET s1 == [s EXCEPT !.interaction_mode = "Idle",
                        !.drag_start = None,
                        !.drag_start_view = None]
        current_x == UnwrapOr(view_state.x_range, view_x)
        current_y == UnwrapOr(view_state.y_range, view_y)
        x_out == /\ interaction.pan_x
                 /\ is_out_of_bounds(current_x, interaction.x_bounds,
                                     interaction.boundary_padding)
        y_out == /\ interaction.pan_y
                 /\ is_out_of_bounds(current_y, interaction.y_bounds,
                                     interaction.boundary_padding)
        target_x == IF x_out
                    THEN Some(clamp_range_to_bounds(current_x, interaction.x_bounds,
                                                    interaction.boundary_padding))
                    ELSE None
        target_y == IF y_out
                    THEN Some(clamp_range_to_bounds(current_y, interaction.y_bounds,
                                                    interaction.boundary_padding))
                    ELSE None
    IN  IF interaction.elastic /\ (x_out \/ y_out)
        THEN Ret([s1 EXCEPT !.elastic_animation =
                     Some([from_x |-> IF x_out THEN Some(current_x) ELSE None,
                           from_y |-> IF y_out THEN Some(current_y) ELSE None,
                           to_x |-> target_x,
                           to_y |-> target_y,
                           start_time |-> now,
                           duration_ms |-> interaction.elastic_duration_ms])],
                 Some(AndCapture(ActionRequestRedraw)))
        ELSE Ret(s1, Some(ActionCapture))

\* the ZoomSelecting release publishing (anchor, corner) as they come
ReleaseZoomSelecting_Unsorted(s) ==
    LET cleared == [s EXCEPT !.interaction_mode = "Idle",
                             !.drag_start = None,
                             !.zoom_select_current = None]
    IN  IF IsSome(s.drag_start) /\ IsSome(s.zoom_select_current)
        THEN LET start == Unwrap(s.drag_start)
                 current == Unwrap(s.zoom_select_current)
                 p0 == screen_to_data(<<start[1] + bounds.x, start[2] + bounds.y>>,
                                      bounds, view_x, view_y, options.padding)
                 p1 == screen_to_data(<<current[1] + bounds.x, current[2] + bounds.y>>,
                                      bounds, view_x, view_y, options.padding)
                 dx == Abs(current[1] - start[1])
                 dy == Abs(current[2] - start[2])
                 new_view ==
                     [x_range |-> IF interaction.zoom_x /\ dx > ZoomSelectMinPx
                                  THEN Some(<<p0[1], p1[1]>>)
                                  ELSE view_state.x_range,
                      y_range |-> IF interaction.zoom_y /\ dy > ZoomSelectMinPx
                                  THEN Some(<<p0[2], p1[2]>>)
                                  ELSE view_state.y_range]
             IN  IF (dx > ZoomSelectMinPx \/ dy > ZoomSelectMinPx) /\ on_view_change
                 THEN Ret(cleared, Some(AndCapture(ActionPublish(new_view))))
                 ELSE Ret(cleared, Some(ActionCapture))
        ELSE Ret(cleared, Some(ActionCapture))

\* ButtonReleased(Left) in InteractionMode::ZoomSelecting
ReleaseZoomSelecting(s) ==
    LET cleared == [s EXCEPT !.interaction_mode = "Idle",
                             !.drag_start = None,
                             !.zoom_select_current = None]
    IN  IF IsSome(s.drag_start) /\ IsSome(s.zoom_select_current)
        THEN LET start == Unwrap(s.drag_start)
                 current == Unwrap(s.zoom_select_current)
                 p0 == screen_to_data(<<start[1] + bounds.x, start[2] + bounds.y>>,
                                      bounds, view_x, view_y, options.padding)
                 p1 == screen_to_data(<<current[1] + bounds.x, current[2] + bounds.y>>,
                                      bounds, view_x, view_y, options.padding)
                 dx == Abs(current[1] - start[1])
                 dy == Abs(current[2] - start[2])
                 new_view ==
                     [x_range |-> IF interaction.zoom_x /\ dx > ZoomSelectMinPx
                                  THEN Some(<<Min2(p0[1], p1[1]), Max2(p0[1], p1[1])>>)
                                  ELSE view_state.x_range,
                      y_range |-> IF interaction.zoom_y /\ dy > ZoomSelectMinPx
                                  THEN Some(<<Min2(p0[2], p1[2]), Max2(p0[2], p1[2])>>)
                                  ELSE view_state.y_range]
             IN  IF (dx > ZoomSelectMinPx \/ dy > ZoomSelectMinPx) /\ on_view_change
                 THEN Ret(cleared, Some(AndCapture(ActionPublish(new_view))))
                 ELSE Ret(cleared, Some(ActionCapture))
        ELSE Ret(cleared, Some(ActionCapture))

\* Event::Mouse(ButtonReleased(Left))
OnButtonReleased(s) ==
    IF s.interaction_mode = "Panning" THEN ReleasePanning(s)
    ELSE IF s.interaction_mode = "ZoomSelecting" THEN ReleaseZoomSelecting(s)
    ELSE Ret(s, None)

\* one axis of the Panning cursor-move: the drag-start range moved by delta
PanAxis(start_range, delta, bnds) ==
    LET raw == <<start_range[1] + delta, start_range[2] + delta>>
    IN  IF interaction.elastic
        THEN apply_elastic_resistance(raw, bnds, interaction.boundary_padding,
                                      interaction.elastic_limit)
        ELSE clamp_range_to_bounds(raw, bnds, interaction.boundary_padding)

\* the Panning cursor-move shifting the view as it is now, not the snapshot
MovePanning_FromCurrentView(s, position) ==
    IF IsSome(s.drag_start) /\ IsSome(s.drag_start_view)
    THEN LET start == Unwrap(s.drag_start)
             plot_width == bounds.width - 2 * options.padding
             plot_height == bounds.height - 2 * options.padding
             dx_screen == (position[1] - bounds.x) - start[1]
             dy_screen == (position[2] - bounds.y) - start[2]
             dx_data == ((0 - dx_screen) * (view_x[2] - view_x[1])) \div plot_width
             dy_data == (dy_screen * (view_y[2] - view_y[1])) \div plot_height
             new_view ==
                 [x_range |-> IF interaction.pan_x
                              THEN Some(PanAxis(view_x, dx_data, interaction.x_bounds))
                              ELSE view_state.x_range,
                  y_range |-> IF interaction.pan_y
                              THEN Some(PanAxis(view_y, dy_data, interaction.y_bounds))
                              ELSE view_state.y_range]
         IN  Ret(s, IF on_view_change
                    THEN Some(AndCapture(ActionPublish(new_view)))
                    ELSE Some(ActionCapture))
    ELSE Ret(s, None)

\* the Panning cursor-move writing both axes, enabled for pan or not
MovePanning_BothAxes(s, position) ==
    IF IsSome(s.drag_start) /\ IsSome(s.drag_start_view)
    THEN LET start == Unwrap(s.drag_start)
             start_view_x == Unwrap(Unwrap(s.drag_start_view).x_range)
             start_view_y == Unwrap(Unwrap(s.drag_start_view).y_range)
             plot_width == bounds.width - 2 * options.padding
             plot_height == bounds.height - 2 * options.padding
             dx_screen == (position[1] - bounds.x) - start[1]
             dy_screen == (position[2] - bounds.y) - start[2]
             dx_data == ((0 - dx_screen) * (start_view_x[2] - start_view_x[1]))
                            \div plot_width
             dy_data == (dy_screen * (start_view_y[2] - start_view_y[1]))
                            \div plot_height
             new_view ==
                 [x_range |-> IF interaction.pan_x
                              THEN Some(PanAxis(start_view_x, dx_data, interaction.x_bounds))
                              ELSE Some(start_view_x),
                  y_range |-> IF interaction.pan_y
                              THEN Some(PanAxis(start_view_y, dy_data, interaction.y_bounds))
                              ELSE Some(start_view_y)]
         IN  Ret(s, IF on_view_change
                    THEN Some(AndCapture(ActionPublish(new_view)))
                    ELSE Some(ActionCapture))
    ELSE Ret(s, None)

\* CursorMoved in InteractionMode::Panning
MovePanning(s, position) ==
    IF IsSome(s.drag_start) /\ IsSome(s.drag_start_view)
    THEN LET start == Unwrap(s.drag_start)
             start_view_x == Unwrap(Unwrap(s.drag_start_view).x_range)
             start_view_y == Unwrap(Unwrap(s.drag_start_view).y_range)
             plot_width == bounds.width - 2 * options.padding
             plot_height == bounds.height - 2 * options.padding
             dx_screen == (position[1] - bounds.x) - start[1]
             dy_screen == (position[2] - bounds.y) - start[2]
             dx_data == ((0 - dx_screen) * (start_view_x[2] - start_view_x[1]))
                            \div plot_width
             dy_data == (dy_screen * (start_view_y[2] - start_view_y[1]))
                            \div plot_height
             new_view ==
                 [x_range |-> IF interaction.pan_x
                              THEN Some(PanAxis(start_view_x, dx_data, interaction.x_bounds))
                              ELSE view_state.x_range,
                  y_range |-> IF interaction.pan_y
                              THEN Some(PanAxis(start_view_y, dy_data, interaction.y_bounds))
                              ELSE view_state.y_range]
         IN  Ret(s, IF on_view_change
                    THEN Some(AndCapture(ActionPublish(new_view)))
                    ELSE Some(ActionCapture))
    ELSE Ret(s, None)

\* Event::Mouse(CursorMoved { position })
OnCursorMoved(s, position) ==
    LET s1 == [s EXCEPT !.last_cursor = Some(position)]
    IN  IF s1.interaction_mode = "Panning" THEN MovePanning(s1, position)
        ELSE IF s1.interaction_mode = "ZoomSelecting"
        THEN Ret([s1 EXCEPT !.zoom_select_current =
                     Some(<<position[1] - bounds.x, position[2] - bounds.y>>)],
                 Some(AndCapture(ActionRequestRedraw)))
        ELSE Ret(s1, None)

\* scroll_y of a ScrollDelta, in thousandths of a line
ScrollY(delta) == IF delta.kind = "Lines" THEN delta.y ELSE (delta.y * 1000) \div 50

\* one axis of the wheel zoom about the data coordinate c
ZoomAxis(view, c, factor, bnds) ==
    clamp_range_to_bounds(
        <<c - Mul(c - view[1], factor), c + Mul(view[2] - c, factor)>>,
        bnds, interaction.boundary_padding)

\* the position update() hands to screen_to_data as the zoom centre
WheelZoomCentre(cursor_pos) == cursor_pos

\* Event::Mouse(WheelScrolled { delta })
OnWheelScrolled(s, delta) ==
    LET inside == position_in(cursor, bounds)
        cursor_pos == Unwrap(inside)
        scroll_y == ScrollY(delta)
        factor == Clamp(1000 - Mul(scroll_y, interaction.zoom_speed), 100, 10000)
        c == screen_to_data(WheelZoomCentre(cursor_pos), bounds, view_x, view_y,
                            options.padding)
        new_view ==
            [x_range |-> IF interaction.zoom_x
                         THEN Some(ZoomAxis(view_x, c[1], factor, interaction.x_bounds))
                         ELSE view_state.x_range,
             y_range |-> IF interaction.zoom_y
                         THEN Some(ZoomAxis(view_y, c[2], factor, interaction.y_bounds))
                         ELSE view_state.y_range]
    IN  IF ~interaction.zoom_x /\ ~interaction.zoom_y THEN Ret(s, None)
        ELSE IF ~IsSome(inside) THEN Ret(s, None)
        ELSE IF scroll_y = 0 THEN Ret(s, None)
        ELSE Ret([s EXCEPT !.elastic_animation = None],
                 IF on_view_change
                 THEN Some(AndCapture(ActionPublish(new_view)))
                 ELSE Some(ActionCapture))

\* the match on the event, reached when no animation is active
Dispatch(s, ev) ==
    CASE ev.type = "ModifiersChanged" -> OnModifiersChanged(s, ev.control)
      [] ev.type = "ButtonPressed" -> OnButtonPressed(s)
      [] ev.type = "ButtonReleased" -> OnButtonReleased(s)
      [] ev.type = "CursorMoved" -> OnCursorMoved(s, ev.position)
      [] ev.type = "WheelScrolled" -> OnWheelScrolled(s, ev.delta)
      [] OTHER -> Ret(s, None)

\* update() with the modifiers tracked ahead of the animation block
update_ModifiersFirst(s, ev) ==
    IF ~has_any_interaction THEN Ret(s, None)
    ELSE IF ev.type = "ModifiersChanged" THEN OnModifiersChanged(s, ev.control)
    ELSE IF IsSome(s.elastic_animation) THEN ElasticBlock(s)
    ELSE Dispatch(s, ev)

\* Program::update
update(s, ev) ==
    IF ~has_any_interaction THEN Ret(s, None)
    ELSE IF IsSome(s.elastic_animation) THEN ElasticBlock(s)
    ELSE Dispatch(s, ev)

-----------------------------------------------------------------------------
(* Configurations, inputs and the initial state *)

\* InteractionConfig::default()
InteractionDefault ==
    [pan_x |-> TRUE, pan_y |-> FALSE, zoom_x |-> TRUE, zoom_y |-> FALSE,
     x_bounds |-> None, y_bounds |-> None,
     boundary_padding |-> 50, zoom_speed |-> 100,
     double_click_to_fit |-> TRUE, zoom_select |-> TRUE,
     elastic |-> TRUE, elastic_limit |-> 300, elastic_duration_ms |-> 200]

\* InteractionConfig::none()
InteractionNone ==
    [pan_x |-> FALSE, pan_y |-> FALSE, zoom_x |-> FALSE, zoom_y |-> FALSE,
     x_bounds |-> None, y_bounds |-> None,
     boundary_padding |-> 50, zoom_speed |-> 100,
     double_click_to_fit |-> FALSE, zoom_select |-> FALSE,
     elastic |-> FALSE, elastic_limit |-> 300, elastic_duration_ms |-> 200]

\* InteractionConfig::full()
InteractionFull == [InteractionDefault EXCEPT !.pan_y = TRUE, !.zoom_y = TRUE]

\* ViewState::auto_fit() and ViewState::with_ranges
auto_fit == [x_range |-> None, y_range |-> None]
with_ranges(x_range, y_range) == [x_range |-> Some(x_range), y_range |-> Some(y_range)]

\* elastic panning on both axes against hard bounds, nothing else
InteractionElasticPan ==
    [InteractionNone EXCEPT !.pan_x = TRUE, !.pan_y = TRUE,
                            !.x_bounds = Some(<<0, 10000>>),
                            !.y_bounds = Some(<<0, 5000>>),
                            !.elastic = TRUE]
\* the default with hard x bounds: pan/zoom x only, y stays at auto-fit
InteractionBoundedX == [InteractionDefault EXCEPT !.x_bounds = Some(<<0, 10000>>)]
\* hard clamping instead of elastic over-scroll
InteractionHardClamp ==
    [InteractionDefault EXCEPT !.x_bounds = Some(<<0, 10000>>),
                               !.elastic = FALSE,
                               !.double_click_to_fit = FALSE]
\* everything but the double-click on both axes, no bounds
InteractionBothAxes == [InteractionFull EXCEPT !.double_click_to_fit = FALSE]
\* an animation of no duration, y only
InteractionInstant ==
    [InteractionNone EXCEPT !.pan_y = TRUE, !.zoom_x = TRUE,
                            !.y_bounds = Some(<<0, 5000>>),
                            !.elastic = TRUE, !.elastic_duration_ms = 0]

WidgetAtOrigin == [x |-> 0, y |-> 0, width |-> 500, height |-> 400]
\* the widget placed inside a layout, away from the window's origin
WidgetInLayout == [x |-> 100, y |-> 40, width |-> 500, height |-> 400]

\* a ViewState left over-scrolled: x = (-5, 15), y at auto-fit
OverScrolledX == [x_range |-> Some(<<0 - 5000, 15000>>), y_range |-> None]

\* a ViewState whose y range is 0.001 below the padded y bounds of (0, 5)
WithinToleranceY == [x_range |-> None, y_range |-> Some(<<0 - 251, 4000>>)]

\* How the application builds the Plotter: the InteractionConfig, whether
\* on_view_change is set, the layout and the ViewState it starts with
Scenario(i, c, b, v) ==
    [interaction |-> i, on_view_change |-> c, bounds |-> b, view_state |-> v]
Scenarios ==
    { Scenario(InteractionElasticPan, TRUE, WidgetInLayout, WithinToleranceY),
      Scenario(InteractionBoundedX, TRUE, WidgetAtOrigin, OverScrolledX),
      Scenario(InteractionBoundedX, FALSE, WidgetAtOrigin, OverScrolledX),
      Scenario(InteractionBothAxes, TRUE, WidgetInLayout,
               with_ranges(<<0, 10000>>, <<0, 5000>>)),
      Scenario(InteractionHardClamp, TRUE, WidgetAtOrigin, auto_fit),
      Scenario(InteractionInstant, TRUE, WidgetInLayout, auto_fit),
      Scenario(InteractionNone, TRUE, WidgetAtOrigin, auto_fit) }

\* Mouse positions relative to the widget; the last one is outside it
RelPoints == { <<100, 100>>, <<300, 250>>, <<104, 250>>, <<0 - 10, 0 - 10>> }
CursorPoints == { <<bounds.x + p[1], bounds.y + p[2]>> : p \in RelPoints }

\* Wheel deltas: one line up, nothing, 50 pixels down
ScrollDeltas ==
    { [kind |-> "Lines", y |-> 1000],
      [kind |-> "Lines", y |-> 0],
      [kind |-> "Pixels", y |-> 0 - 50] }

\* the Plotter built from scenario sc and a fresh PlotterState
WidgetInit(sc) ==
    /\ interaction = sc.interaction
    /\ on_view_change = sc.on_view_change
    /\ bounds = sc.bounds
    /\ view_state = sc.view_state
    /\ cursor = <<sc.bounds.x + 100, sc.bounds.y + 100>>
    /\ now = 0
    \* PlotterState::default()
    /\ interaction_mode = "Idle"
    /\ drag_start = None
    /\ drag_start_view = None
    /\ last_cursor = None
    /\ last_click_time = None
    /\ modifiers = FALSE
    /\ zoom_select_current = None
    /\ elastic_animation = None
    /\ action = None
    /\ view_changes = 0
    /\ drag_counted = FALSE

Init ==
    /\ \E sc \in Scenarios : WidgetInit(sc)
    /\ fn_args = None
    /\ fn_result = None

-----------------------------------------------------------------------------
(* Steps *)

Publishes(a) == IsSome(a) /\ IsSome(Unwrap(a).publish)
Published(a) == Unwrap(Unwrap(a).publish)

\* The host hands ev to update(); a published ViewState is stored by the
\* application (examples/interactive.rs: Message::ViewChanged) before the next
\* event.
Deliver(ev) ==
    \E r \in {update(Session, ev)} :
    \E user_change \in {Publishes(r.action) /\ ~IsSome(elastic_animation)} :
    \E in_drag \in {user_change /\ ev.type = "CursorMoved"} :
        /\ now <= MaxClockTicks * ClockStepMs \/ IsSome(elastic_animation)
        /\ (user_change /\ ~(in_drag /\ drag_counted)) => view_changes < MaxViewChanges
        /\ interaction_mode' = r.state.interaction_mode
        /\ drag_start' = r.state.drag_start
        /\ drag_start_view' = r.state.drag_start_view
        /\ last_cursor' = r.state.last_cursor
        /\ last_click_time' = r.state.last_click_time
        /\ modifiers' = r.state.modifiers
        /\ zoom_select_current' = r.state.zoom_select_current
        /\ elastic_animation' = r.state.elastic_animation
        /\ action' = r.action
        /\ view_state' = IF Publishes(r.action) THEN Published(r.action) ELSE view_state
        /\ view_changes' = IF user_change /\ ~(in_drag /\ drag_counted)
                           THEN view_changes + 1 ELSE view_changes
        /\ drag_counted' = IF r.state.interaction_mode # "Panning" THEN FALSE
                           ELSE IF ev.type = "ButtonPressed" /\ ~IsSome(elastic_animation)
                           THEN FALSE
                           ELSE drag_counted \/ in_drag
        /\ UNCHANGED <<interaction, on_view_change, bounds, now, fn_args, fn_result>>

ModifiersChanged ==
    \E ctrl \in BOOLEAN :
        /\ Deliver([type |-> "ModifiersChanged", control |-> ctrl])
        /\ UNCHANGED cursor

ButtonPressed ==
    /\ Deliver([type |-> "ButtonPressed"])
    /\ UNCHANGED cursor

ButtonReleased ==
    /\ Deliver([type |-> "ButtonReleased"])
    /\ UNCHANGED cursor

CursorMoved ==
    \E position \in CursorPoints :
        /\ position # cursor
        /\ Deliver([type |-> "CursorMoved", position |-> position])
        /\ cursor' = position

WheelScrolledBy(delta) ==
    /\ Deliver([type |-> "WheelScrolled", delta |-> delta])
    /\ UNCHANGED cursor

WheelScrolled == \E delta \in ScrollDeltas : WheelScrolledBy(delta)

\* any other event, such as the window's RedrawRequested
RedrawRequested ==
    /\ Deliver([type |-> "RedrawRequested"])
    /\ UNCHANGED cursor

AnimationRunning ==
    /\ IsSome(elastic_animation)
    /\ now - Unwrap(elastic_animation).start_time < Unwrap(elastic_animation).duration_ms

\* Time passes between two events.  update() reads the clock only against
\* last_click_time and the animation's start_time: time that passes while
\* neither is set makes no difference and is left out.
AdvanceClock ==
    /\ IsSome(last_click_time) \/ IsSome(elastic_animation)
    /\ now < MaxClockTicks * ClockStepMs \/ AnimationRunning
    /\ now' = now + ClockStepMs
    /\ action' = None
    /\ UNCHANGED <<interaction, on_view_change, bounds, view_state, cursor,
                   interaction_mode, drag_start, drag_start_view, last_cursor,
                   last_click_time, modifiers, zoom_select_current,
                   elastic_animation, view_changes, drag_counted,
                   fn_args, fn_result>>

Next ==
    \/ ModifiersChanged
    \/ ButtonPressed
    \/ ButtonReleased
    \/ CursorMoved
    \/ WheelScrolled
    \/ RedrawRequested
    \/ AdvanceClock

Spec == Init /\ [][Next]_vars

-----------------------------------------------------------------------------
(* clamp_range_to_bounds called on its own *)

\* largest coordinate, in whole data units, of the ranges and bounds tried
ClampMaxCoord == 3

ClampCoords == { 1000 * k : k \in (0 - ClampMaxCoord)..ClampMaxCoord }
\* boundary_padding values: none, the default 0.05, a half
ClampPaddings == { 0, 50, 500 }

\* any (f32, f32) is accepted as a range, in either order; the bounds are Some
ClampInputs ==
    { [range |-> <<lo, hi>>, bounds |-> Some(<<b_lo, b_hi>>), padding_frac |-> pf] :
        lo \in ClampCoords, hi \in ClampCoords,
        b_lo \in ClampCoords, b_hi \in ClampCoords, pf \in ClampPaddings }

ClampInit ==
    /\ WidgetInit(Scenario(InteractionNone, FALSE, WidgetAtOrigin, auto_fit))
    /\ fn_args \in { Some(a) : a \in ClampInputs }
    /\ fn_result = None

CallClamp ==
    /\ IsSome(fn_args)
    /\ fn_result = None
    /\ fn_result' = Some(clamp_range_to_bounds(Unwrap(fn_args).range,
                                               Unwrap(fn_args).bounds,
                                               Unwrap(fn_args).padding_frac))
    /\ UNCHANGED <<fn_args, interaction, on_view_change, bounds, view_state,
                   cursor, now, interaction_mode, drag_start, drag_start_view,
                   last_cursor, last_click_time, modifiers, zoom_select_current,
                   elastic_animation, action, view_changes, drag_counted>>

ClampNext == CallClamp

ClampSpec == ClampInit /\ [][ClampNext]_vars

-----------------------------------------------------------------------------
(* resolve_view_ranges called on its own *)

\* largest coordinate, in steps of two data units, of the view ranges tried
ResolveMaxCoord == 2

ResolveCoords == { 2000 * k : k \in (0 - ResolveMaxCoord)..ResolveMaxCoord }
\* a ViewState axis: auto-fit, or any (f32, f32)
ResolveAxisRanges ==
    { None } \cup { Some(<<lo, hi>>) : lo \in ResolveCoords, hi \in ResolveCoords }
\* the other axis: auto-fit, a range inside the bounds, one wider than them
ResolveOtherRanges == { None, Some(<<0, 2000>>), Some(<<0 - 8000, 8000>>) }

ResolveInteractions ==
    { [InteractionDefault EXCEPT !.elastic = e, !.pan_x = px, !.pan_y = py,
                                 !.x_bounds = xb, !.y_bounds = yb,
                                 !.boundary_padding = bp] :
        e \in BOOLEAN, px \in BOOLEAN, py \in BOOLEAN,
        xb \in { None, Some(<<0, 4000>>) },
        yb \in { None, Some(<<0 - 2000, 2000>>) },
        bp \in { 50, 500 } }

ResolveInputs ==
    { [view_state |-> [x_range |-> xr, y_range |-> yr],
       interaction |-> i,
       data |-> PlotDataRanges,
       enforce_bounds |-> eb] :
        xr \in ResolveAxisRanges, yr \in ResolveOtherRanges,
        i \in ResolveInteractions, eb \in BOOLEAN }
      \cup
    { [view_state |-> [x_range |-> yr, y_range |-> xr],
       interaction |-> i,
       data |-> PlotDataRanges,
       enforce_bounds |-> TRUE] :
        xr \in ResolveAxisRanges, yr \in ResolveOtherRanges,
        i \in ResolveInteractions }

ResolveInit ==
    /\ WidgetInit(Scenario(InteractionNone, FALSE, WidgetAtOrigin, auto_fit))
    /\ fn_args \in { Some(a) : a \in ResolveInputs }
    /\ fn_result = None

CallResolve ==
    /\ IsSome(fn_args)
    /\ fn_result = None
    /\ fn_result' = Some(resolve_view_ranges(Unwrap(fn_args).view_state,
                                             Unwrap(fn_args).interaction,
                                             Unwrap(fn_args).data,
                                             Unwrap(fn_args).enforce_bounds))
    /\ UNCHANGED <<fn_args, interaction, on_view_change, bounds, view_state,
                   cursor, now, interaction_mode, drag_start, drag_start_view,
                   last_cursor, last_click_time, modifiers, zoom_select_current,
                   elastic_animation, action, view_changes, drag_counted>>

ResolveNext == CallResolve

ResolveSpec == ResolveInit /\ [][ResolveNext]_vars

-----------------------------------------------------------------------------
(* compute_data_ranges called on its own *)

\* most series handed to the Plotter
MaxSeries == 2

SolidColor == Solid(Black)
PlotSeries(points, color) == [points |-> points, color |-> color]

\* point lists: empty, one point, two points of equal y, three points, and
\* generators of 3, 2, 0 and 1 samples
PointLists ==
    { Owned(<< >>),
      Owned(<< <<1000, 2000>> >>),
      Owned(<< <<0, 3000>>, <<4000, 3000>> >>),
      Owned(<< <<0 - 2000, 0 - 1000>>, <<2000, 5000>>, <<3000, 0>> >>),
      Generator("Line", <<0, 4000>>, 3),
      Generator("Flat", <<0 - 1000, 1000>>, 2),
      Generator("Line", <<0, 4000>>, 0),
      Generator("Line", <<5000, 9000>>, 1) }

\* the lists of up to n elements of S
RECURSIVE SeqsUpTo(_, _)
SeqsUpTo(S, n) ==
    IF n = 0 THEN { << >> }
    ELSE LET shorter == SeqsUpTo(S, n - 1)
         IN  shorter \cup { Append(q, e) : q \in shorter, e \in S }

DataInputs ==
    { [series |-> ss, hidden |-> h] :
        ss \in SeqsUpTo({ PlotSeries(pl, SolidColor) : pl \in PointLists }, MaxSeries),
        h \in SUBSET (0..(MaxSeries - 1)) }

DataInit ==
    /\ WidgetInit(Scenario(InteractionNone, FALSE, WidgetAtOrigin, auto_fit))
    /\ fn_args \in { Some(a) : a \in DataInputs }
    /\ fn_result = None

CallComputeDataRanges ==
    /\ IsSome(fn_args)
    /\ fn_result = None
    /\ fn_result' = Some(plotter_compute_data_ranges(Unwrap(fn_args).series,
                                                     Unwrap(fn_args).hidden))
    /\ UNCHANGED <<fn_args, interaction, on_view_change, bounds, view_state,
                   cursor, now, interaction_mode, drag_start, drag_start_view,
                   last_cursor, last_click_time, modifiers, zoom_select_current,
                   elastic_animation, action, view_changes, drag_counted>>

DataNext == CallComputeDataRanges

DataSpec == DataInit /\ [][DataNext]_vars

-----------------------------------------------------------------------------
(* resolve_view_ranges called on a Plotter whose ViewState is auto-fit *)

FitInputs ==
    { [series |-> a.series, hidden |-> a.hidden, enforce_bounds |-> e] :
        a \in DataInputs, e \in BOOLEAN }

FitInit ==
    /\ WidgetInit(Scenario(InteractionNone, FALSE, WidgetAtOrigin, auto_fit))
    /\ fn_args \in { Some(a) : a \in FitInputs }
    /\ fn_result = None

CallResolveAutoFit ==
    /\ IsSome(fn_args)
    /\ fn_result = None
    /\ fn_result' = Some(resolve_view_ranges(
                             auto_fit, InteractionDefault,
                             plotter_compute_data_ranges(Unwrap(fn_args).series,
                                                         Unwrap(fn_args).hidden),
                             Unwrap(fn_args).enforce_bounds))
    /\ UNCHANGED <<fn_args, interaction, on_view_change, bounds, view_state,
                   cursor, now, interaction_mode, drag_start, drag_start_view,
                   last_cursor, last_click_time, modifiers, zoom_select_current,
                   elastic_animation, action, view_changes, drag_counted>>

FitNext == CallResolveAutoFit

FitSpec == FitInit /\ [][FitNext]_vars

-----------------------------------------------------------------------------
(* screen_to_data followed by to_screen *)

\* view spans are 1..MapMaxSpan times 2.0 in x and 1.2 in y, so that every
\* division by the plot size (400 or 500 wide, 300 or 400 high) is exact
MapMaxSpan == 2
MapLows == { 0 - 2000, 0, 1000 }
MapViewsX == { <<lo, lo + 2000 * k>> : lo \in MapLows, k \in 1..MapMaxSpan }
MapViewsY == { <<lo, lo + 1200 * k>> : lo \in MapLows, k \in 1..MapMaxSpan }
MapPaddings == { 0, options.padding }
\* offsets from the plot rectangle's corner, strictly inside it
MapOffsets == { <<dx, dy>> : dx \in {1, 200, 399}, dy \in {1, 150, 299} }

MapInputs ==
    { [screen |-> <<rect.x + pad + off[1], rect.y + pad + off[2]>>,
       bounds |-> rect, view_x |-> vx, view_y |-> vy, padding |-> pad] :
        rect \in { WidgetAtOrigin, WidgetInLayout }, pad \in MapPaddings,
        vx \in MapViewsX, vy \in MapViewsY, off \in MapOffsets }

MapInit ==
    /\ WidgetInit(Scenario(InteractionNone, FALSE, WidgetAtOrigin, auto_fit))
    /\ fn_args \in { Some(a) : a \in MapInputs }
    /\ fn_result = None

MapUniforms(a) == Uniforms(a.bounds, a.padding, a.view_x, a.view_y)

CallRoundTrip ==
    /\ IsSome(fn_args)
    /\ fn_result = None
    /\ LET a == Unwrap(fn_args)
           data == screen_to_data(a.screen, a.bounds, a.view_x, a.view_y, a.padding)
       IN  fn_result' = Some([data |-> data,
                              screen |-> to_screen(data[1], data[2], MapUniforms(a))])
    /\ UNCHANGED <<fn_args, interaction, on_view_change, bounds, view_state,
                   cursor, now, interaction_mode, drag_start, drag_start_view,
                   last_cursor, last_click_time, modifiers, zoom_select_current,
                   elastic_animation, action, view_changes, drag_counted>>

MapNext == CallRoundTrip

MapSpec == MapInit /\ [][MapNext]_vars

-----------------------------------------------------------------------------
(* compute_ticks called on its own *)

\* range ends are multiples of 0.3 and of 1.0 up to TickMaxCoord of them
TickMaxCoord == 4
TickCoords ==
    { 300 * k : k \in (0 - TickMaxCoord)..TickMaxCoord }
        \cup { 1000 * k : k \in (0 - TickMaxCoord)..TickMaxCoord }
TickConfigs == { TickConfigDefault, TickConfig(0, 0), TickConfig(2, 5), TickConfig(10, 20) }

TickInputs ==
    { [range_min |-> a, range_max |-> b, config |-> c] :
        a \in TickCoords, b \in TickCoords, c \in TickConfigs }

TicksInit ==
    /\ WidgetInit(Scenario(InteractionNone, FALSE, WidgetAtOrigin, auto_fit))
    /\ fn_args \in { Some(a) : a \in TickInputs }
    /\ fn_result = None

CallComputeTicks ==
    /\ IsSome(fn_args)
    /\ fn_result = None
    /\ fn_result' = Some(compute_ticks(Unwrap(fn_args).range_min,
                                       Unwrap(fn_args).range_max,
                                       Unwrap(fn_args).config))
    /\ UNCHANGED <<fn_args, interaction, on_view_change, bounds, view_state,
                   cursor, now, interaction_mode, drag_start, drag_start_view,
                   last_cursor, last_click_time, modifiers, zoom_select_current,
                   elastic_animation, action, view_changes, drag_counted>>

TicksNext == CallComputeTicks

TicksSpec == TicksInit /\ [][TicksNext]_vars

-----------------------------------------------------------------------------
(* draw called on its own *)

\* the series a frame is drawn from: an empty one, a single point, three
\* points, a generator of three samples, two points with explicit gradient
\* values, two coinciding points
GeometrySeries ==
    { PlotSeries(Owned(<< >>), SolidColor),
      PlotSeries(Owned(<< <<1000, 2000>> >>), ValueGradient(Blue, Red, None)),
      PlotSeries(Owned(<< <<0 - 2000, 0 - 1000>>, <<2000, 5000>>, <<3000, 0>> >>),
                 ValueGradient(Blue, Red, None)),
      PlotSeries(Generator("Line", <<6000, 8000>>, 3), Colormap("Grayscale", None)),
      PlotSeries(Owned(<< <<0, 3000>>, <<4000, 3000>> >>),
                 ValueGradient(Blue, Red, Some(<<1000, 3000>>))),
      PlotSeries(Owned(<< <<1000, 1000>>, <<1000, 1000>> >>), IndexGradient(Blue, Red)) }

GeometryViews ==
    { with_ranges(<<0 - 3000, 10000>>, <<0 - 2000, 6000>>),
      with_ranges(<<0, 4000>>, <<0, 4000>>) }

GeometryInputs ==
    { [series |-> ss, hidden |-> h, view_state |-> v, bounds |-> WidgetInLayout] :
        ss \in SeqsUpTo(GeometrySeries, MaxSeries),
        h \in SUBSET (0..(MaxSeries - 1)),
        v \in GeometryViews }

GeometryInit ==
    /\ WidgetInit(Scenario(InteractionNone, FALSE, WidgetAtOrigin, auto_fit))
    /\ fn_args \in { Some(a) : a \in GeometryInputs }
    /\ fn_result = None

CallDraw ==
    /\ IsSome(fn_args)
    /\ fn_result = None
    /\ fn_result' = Some(draw(Unwrap(fn_args).series, Unwrap(fn_args).hidden,
                              Unwrap(fn_args).view_state, InteractionNone,
                              Unwrap(fn_args).bounds))
    /\ UNCHANGED <<fn_args, interaction, on_view_change, bounds, view_state,
                   cursor, now, interaction_mode, drag_start, drag_start_view,
                   last_cursor, last_click_time, modifiers, zoom_select_current,
                   elastic_animation, action, view_changes, drag_counted>>

GeometryNext == CallDraw

GeometrySpec == GeometryInit /\ [][GeometryNext]_vars

-----------------------------------------------------------------------------
(* ColormapName::sample called on its own *)

ColormapNames == { "Viridis", "Plasma", "Turbo", "Heat", "Grayscale" }

\* t runs in steps of 0.05 from SampleOver steps below 0 to as many above 1
SampleOver == 10
SampleTs == { 50 * k : k \in (0 - SampleOver)..(20 + SampleOver) }

SampleInputs == { [name |-> n, t |-> t] : n \in ColormapNames, t \in SampleTs }

SampleInit ==
    /\ WidgetInit(Scenario(InteractionNone, FALSE, WidgetAtOrigin, auto_fit))
    /\ fn_args \in { Some(a) : a \in SampleInputs }
    /\ fn_result = None

CallSample ==
    /\ IsSome(fn_args)
    /\ fn_result = None
    /\ fn_result' = Some(colormap_sample(Unwrap(fn_args).name, Unwrap(fn_args).t))
    /\ UNCHANGED <<fn_args, interaction, on_view_change, bounds, view_state,
                   cursor, now, interaction_mode, drag_start, drag_start_view,
                   last_cursor, last_click_time, modifiers, zoom_select_current,
                   elastic_animation, action, view_changes, drag_counted>>

SampleNext == CallSample

SampleSpec == SampleInit /\ [][SampleNext]_vars

-----------------------------------------------------------------------------
(* apply_elastic_resistance called on its own *)

\* raw ranges have their ends at whole numbers up to ElasticMaxCoord either
\* side of 0, against hard bounds (0, 4)
ElasticMaxCoord == 6
ElasticCoords == { 1000 * k : k \in (0 - ElasticMaxCoord)..ElasticMaxCoord }
ElasticInputs ==
    { [range |-> r, bounds |-> Some(<<0, 4000>>),
       padding_frac |-> pf, elastic_limit |-> el] :
        r \in { q \in ElasticCoords \X ElasticCoords : q[1] < q[2] },
        pf \in {50, 500}, el \in {100, 300} }

ElasticInit ==
    /\ WidgetInit(Scenario(InteractionNone, FALSE, WidgetAtOrigin, auto_fit))
    /\ fn_args \in { Some(a) : a \in ElasticInputs }
    /\ fn_result = None

CallElastic ==
    /\ IsSome(fn_args)
    /\ fn_result = None
    /\ fn_result' = Some(apply_elastic_resistance(Unwrap(fn_args).range,
                                                  Unwrap(fn_args).bounds,
                                                  Unwrap(fn_args).padding_frac,
                                                  Unwrap(fn_args).elastic_limit))
    /\ UNCHANGED <<fn_args, interaction, on_view_change, bounds, view_state,
                   cursor, now, interaction_mode, drag_start, drag_start_view,
                   last_cursor, last_click_time, modifiers, zoom_select_current,
                   elastic_animation, action, view_changes, drag_counted>>

ElasticNext == CallElastic

ElasticSpec == ElasticInit /\ [][ElasticNext]_vars

-----------------------------------------------------------------------------
(* Properties of the interaction state machine *)

\* a call of update() with any event
AnyEvent ==
    \/ ModifiersChanged \/ ButtonPressed \/ ButtonReleased
    \/ CursorMoved \/ WheelScrolled \/ RedrawRequested

\* a call of update(): every step of Next but the clock step is one
UpdateCall == ~AdvanceClock

\* ms since the animation started
Elapsed == now - Unwrap(elastic_animation).start_time

Captured(a) == IsSome(a) /\ Unwrap(a).capture
RequestsRedraw(a) == IsSome(a) /\ Unwrap(a).redraw

C2_PressOrWheelCancelsAnimation ==
    [][ /\ ( /\ AnimationRunning
             /\ IsSome(position_in(cursor, bounds))
             /\ interaction.pan_x \/ interaction.pan_y
             /\ ~(interaction.zoom_select /\ modifiers)
             /\ ~IsSome(last_click_time)
             /\ ButtonPressed )
           => (elastic_animation' = None /\ interaction_mode' = "Panning")
        /\ ( /\ AnimationRunning
             /\ IsSome(position_in(cursor, bounds))
             /\ interaction.zoom_x \/ interaction.zoom_y
             /\ \E delta \in ScrollDeltas : ScrollY(delta) # 0 /\ WheelScrolledBy(delta) )
           => /\ elastic_animation' = None
              /\ Captured(action')
              /\ on_view_change => Publishes(action') ]_vars

\* the padded bounds of an axis
PaddedLo(bnds, padding_frac) == bnds[1][1] - Mul(bnds[1][2] - bnds[1][1], padding_frac)
PaddedHi(bnds, padding_frac) == bnds[1][2] + Mul(bnds[1][2] - bnds[1][1], padding_frac)

\* range lies outside the padded bounds by more than tol
OutsidePadded(range, bnds, tol) ==
    /\ IsSome(bnds)
    /\ \/ range[1] < PaddedLo(bnds, interaction.boundary_padding) - tol
       \/ range[2] > PaddedHi(bnds, interaction.boundary_padding) + tol

CurrentX == UnwrapOr(view_state.x_range, view_x)
CurrentY == UnwrapOr(view_state.y_range, view_y)

\* what a release in Panning mode does, with "outside" read as "outside by
\* more than tol"
ReleaseInPanning(tol) ==
    LET x_out == interaction.pan_x /\ OutsidePadded(CurrentX, interaction.x_bounds, tol)
        y_out == interaction.pan_y /\ OutsidePadded(CurrentY, interaction.y_bounds, tol)
    IN  (interaction_mode = "Panning" /\ ButtonReleased) =>
          /\ interaction_mode' = "Idle"
          /\ drag_start' = None
          /\ drag_start_view' = None
          /\ IsSome(elastic_animation') <=> (interaction.elastic /\ (x_out \/ y_out))
          /\ IsSome(elastic_animation') =>
               /\ Unwrap(elastic_animation') =
                    [from_x |-> IF x_out THEN Some(CurrentX) ELSE None,
                     from_y |-> IF y_out THEN Some(CurrentY) ELSE None,
                     to_x |-> IF x_out
                              THEN Some(clamp_range_to_bounds(
                                       CurrentX, interaction.x_bounds,
                                       interaction.boundary_padding))
                              ELSE None,
                     to_y |-> IF y_out
                              THEN Some(clamp_range_to_bounds(
                                       CurrentY, interaction.y_bounds,
                                       interaction.boundary_padding))
                              ELSE None,
                     start_time |-> now,
                     duration_ms |-> interaction.elastic_duration_ms]
               /\ RequestsRedraw(action')

\* C3 as stated: on release in Panning mode the mode becomes Idle and the drag
\* state is cleared; an animation is created if and only if elastic is enabled
\* and the current range of a pan-enabled axis with hard bounds lies outside
\* the padded bounds; from/to/duration are as described and a redraw is
\* requested.
C3_ReleaseCreatesAnimationIffOutside == [][ReleaseInPanning(0)]_vars

\* C3 amended: the same, with "outside the padded bounds" read as "outside
\* them by more than 0.001".
C3_ReleaseCreatesAnimationIffOutsideTolerance ==
    [][ReleaseInPanning(OutOfBoundsTolerance)]_vars

\* a release has just created an animation for the x axis alone
C3_Witness ==
    /\ IsSome(elastic_animation)
    /\ Unwrap(elastic_animation).start_time = now
    /\ IsSome(Unwrap(elastic_animation).from_x)
    /\ Unwrap(elastic_animation).from_y = None
    /\ interaction_mode = "Idle"
    /\ RequestsRedraw(action) /\ Captured(action)

-----------------------------------------------------------------------------
(* The animation's ticks *)

\* an update() call while an animation is active
TickStep == IsSome(elastic_animation) /\ UpdateCall

Anim == Unwrap(elastic_animation)
AnimatedX == IsSome(Anim.from_x) /\ IsSome(Anim.to_x)
AnimatedY == IsSome(Anim.from_y) /\ IsSome(Anim.to_y)

\* from + (to - from) * (1 - (1 - t)^3) with t = elapsed / duration_ms
Eased(from, to) ==
    LET t == (Elapsed * 1000) \div Anim.duration_ms
        e == 1000 - ((1000 - t) * (1000 - t) * (1000 - t)) \div 1000000
    IN  <<from[1] + Mul(to[1] - from[1], e), from[2] + Mul(to[2] - from[2], e)>>

Between(v, a, b) == Min2(a, b) <= v /\ v <= Max2(a, b)
RangeBetween(r, from, to) ==
    Between(r[1], from[1], to[1]) /\ Between(r[2], from[2], to[2])

\* what a tick with elapsed < duration_ms does
InFlightTick ==
    /\ elastic_animation' = elastic_animation
    /\ action' # None
    /\ Publishes(action') \/ RequestsRedraw(action')
    /\ Publishes(action') <=> on_view_change
    /\ Publishes(action') =>
         /\ IF AnimatedX
            THEN LET v == Eased(Unwrap(Anim.from_x), Unwrap(Anim.to_x))
                 IN  /\ Published(action').x_range = Some(v)
                     /\ RangeBetween(v, Unwrap(Anim.from_x), Unwrap(Anim.to_x))
            ELSE Published(action').x_range = view_state.x_range
         /\ IF AnimatedY
            THEN LET v == Eased(Unwrap(Anim.from_y), Unwrap(Anim.to_y))
                 IN  /\ Published(action').y_range = Some(v)
                     /\ RangeBetween(v, Unwrap(Anim.from_y), Unwrap(Anim.to_y))
            ELSE Published(action').y_range = view_state.y_range

\* what a tick with elapsed >= duration_ms does; it publishes when must_publish
CompletionTick(must_publish) ==
    /\ elastic_animation' = None
    /\ IF must_publish
       THEN /\ Publishes(action')
            /\ Published(action') =
                 [x_range |-> IF AnimatedX THEN Anim.to_x ELSE view_state.x_range,
                  y_range |-> IF AnimatedY THEN Anim.to_y ELSE view_state.y_range]
       ELSE action' = None

\* C4 as stated: a tick with elapsed < duration_ms keeps the animation, returns
\* a publish or a redraw request, and publishes from + (to - from) *
\* (1 - (1 - t)^3) for each animated axis, a range between from and to; the
\* first tick with elapsed >= duration_ms publishes exactly `to` for each
\* animated axis, the current ViewState's range for the others, and clears the
\* animation.
C4_ElasticTick ==
    [][ TickStep => IF Elapsed < Anim.duration_ms
                    THEN InFlightTick
                    ELSE CompletionTick(TRUE) ]_vars

\* C4 amended: the same, where the completing tick publishes only if
\* on_view_change is set and otherwise clears the animation and returns None.
C4_ElasticTickWithCallback ==
    [][ TickStep => IF Elapsed < Anim.duration_ms
                    THEN InFlightTick
                    ELSE CompletionTick(on_view_change) ]_vars

\* a tick part-way through the animation has published an x range strictly
\* between from and to
C4_Witness ==
    /\ IsSome(elastic_animation)
    /\ 0 < Elapsed /\ Elapsed < Anim.duration_ms
    /\ Publishes(action) /\ ~Captured(action)
    /\ AnimatedX
    /\ view_state.x_range = Some(Eased(Unwrap(Anim.from_x), Unwrap(Anim.to_x)))
    /\ view_state.x_range # Anim.from_x
    /\ view_state.x_range # Anim.to_x

\* the host keeps calling update() and the clock keeps advancing
LiveSpec == Spec /\ WF_vars(AdvanceClock) /\ WF_vars(AnyEvent)

\* range lies inside the padded bounds
InsidePadded(range, bnds) ==
    /\ PaddedLo(bnds, interaction.boundary_padding) <= range[1]
    /\ range[2] <= PaddedHi(bnds, interaction.boundary_padding)

\* C5: once an animation exists, under continued update() calls and an
\* advancing clock it is eventually cleared; and the ViewState published by the
\* tick that clears it has each animated axis at its clamp target, which is
\* inside the padded bounds and not out of bounds for a later release.
C5_SpringBackCompletes ==
    /\ IsSome(elastic_animation) ~> (elastic_animation = None)
    /\ [][ (TickStep /\ elastic_animation' = None /\ Publishes(action')) =>
             /\ AnimatedX =>
                  /\ Published(action').x_range = Anim.to_x
                  /\ Anim.to_x = Some(clamp_range_to_bounds(
                                          Unwrap(Anim.from_x), interaction.x_bounds,
                                          interaction.boundary_padding))
                  /\ InsidePadded(Unwrap(Anim.to_x), interaction.x_bounds)
                  /\ ~is_out_of_bounds(Unwrap(Anim.to_x), interaction.x_bounds,
                                       interaction.boundary_padding)
             /\ AnimatedY =>
                  /\ Published(action').y_range = Anim.to_y
                  /\ Anim.to_y = Some(clamp_range_to_bounds(
                                          Unwrap(Anim.from_y), interaction.y_bounds,
                                          interaction.boundary_padding))
                  /\ InsidePadded(Unwrap(Anim.to_y), interaction.y_bounds)
                  /\ ~is_out_of_bounds(Unwrap(Anim.to_y), interaction.y_bounds,
                                       interaction.boundary_padding) ]_vars

\* an animation has completed: its last tick published the clamped x range of
\* the over-scrolled view
C5_Witness ==
    /\ elastic_animation = None
    /\ Publishes(action) /\ ~Captured(action)
    /\ interaction.x_bounds = Some(<<0, 10000>>)
    /\ view_state.x_range = Some(<<0 - 500, 10500>>)

-----------------------------------------------------------------------------
(* Panning *)

\* C6: during Panning with pan_x and no x bounds, the x range published for a
\* cursor move is the drag-start snapshot's x range shifted by
\* -(cursor.x - anchor.x) / plot_width * (snapshot span), whatever ViewState is
\* stored: its span is the snapshot's, and with the cursor back at the anchor
\* it is the snapshot's range itself.
C6_PanFromSnapshot ==
    [][ ( /\ interaction_mode = "Panning"
          /\ ~IsSome(elastic_animation)
          /\ interaction.pan_x
          /\ interaction.x_bounds = None
          /\ on_view_change
          /\ IsSome(drag_start) /\ IsSome(drag_start_view)
          /\ CursorMoved ) =>
        LET anchor == Unwrap(drag_start)
            start_x == Unwrap(Unwrap(drag_start_view).x_range)
            span == start_x[2] - start_x[1]
            moved == (cursor'[1] - bounds.x) - anchor[1]
            shift == ((0 - moved) * span) \div (bounds.width - 2 * options.padding)
            published == Published(action').x_range
        IN  /\ Publishes(action')
            /\ published = Some(<<start_x[1] + shift, start_x[2] + shift>>)
            /\ Unwrap(published)[2] - Unwrap(published)[1] = span
            /\ moved = 0 => published = Some(start_x) ]_vars

\* a drag has moved the view and the cursor is back at the anchor: the view is
\* the drag-start snapshot's again
C6_Witness ==
    /\ interaction_mode = "Panning"
    /\ interaction.pan_x /\ interaction.x_bounds = None
    /\ drag_counted
    /\ Publishes(action) /\ Captured(action)
    /\ drag_start = Some(<<cursor[1] - bounds.x, cursor[2] - bounds.y>>)
    /\ view_state.x_range = Unwrap(drag_start_view).x_range

-----------------------------------------------------------------------------
(* clamp_range_to_bounds *)

ClampArgs == Unwrap(fn_args)
ClampResult == Unwrap(fn_result)
ClampPad == Mul(ClampArgs.bounds[1][2] - ClampArgs.bounds[1][1], ClampArgs.padding_frac)
ClampPaddedLo == ClampArgs.bounds[1][1] - ClampPad
ClampPaddedHi == ClampArgs.bounds[1][2] + ClampPad
ClampSpanFits ==
    ClampArgs.range[2] - ClampArgs.range[1] <= ClampPaddedHi - ClampPaddedLo

\* the result is inside the padded bounds and as wide as the input
ClampContained ==
    /\ ClampPaddedLo <= ClampResult[1]
    /\ ClampResult[1] <= ClampPaddedHi
    /\ ClampPaddedLo <= ClampResult[2]
    /\ ClampResult[2] <= ClampPaddedHi
    /\ ClampResult[2] - ClampResult[1] = ClampArgs.range[2] - ClampArgs.range[1]

-----------------------------------------------------------------------------
(* Zooming *)

\* C8: a wheel zoom on the x axis (the y axis alike) that bounds clamping does
\* not alter publishes new_lo = c - (c - old_lo) * factor and new_hi = c +
\* (old_hi - c) * factor with c the data coordinate under the cursor, wherever
\* the widget is placed.
C8_WheelZoomAboutCursor ==
    [][ \A delta \in ScrollDeltas :
          ( /\ ScrollY(delta) # 0
            /\ ~IsSome(elastic_animation)
            /\ IsSome(position_in(cursor, bounds))
            /\ on_view_change
            /\ interaction.zoom_x \/ interaction.zoom_y
            /\ WheelScrolledBy(delta) ) =>
          LET c == screen_to_data(cursor, bounds, view_x, view_y, options.padding)
              factor == Clamp(1000 - Mul(ScrollY(delta), interaction.zoom_speed),
                              100, 10000)
              zoomed_x == <<c[1] - Mul(c[1] - view_x[1], factor),
                            c[1] + Mul(view_x[2] - c[1], factor)>>
              zoomed_y == <<c[2] - Mul(c[2] - view_y[1], factor),
                            c[2] + Mul(view_y[2] - c[2], factor)>>
          IN  /\ ( /\ interaction.zoom_x
                   /\ clamp_range_to_bounds(zoomed_x, interaction.x_bounds,
                                            interaction.boundary_padding) = zoomed_x )
                 => (Publishes(action') /\ Published(action').x_range = Some(zoomed_x))
              /\ ( /\ interaction.zoom_y
                   /\ clamp_range_to_bounds(zoomed_y, interaction.y_bounds,
                                            interaction.boundary_padding) = zoomed_y )
                 => (Publishes(action') /\ Published(action').y_range = Some(zoomed_y))
      ]_vars

-----------------------------------------------------------------------------
(* Double-click *)

\* a left press inside the widget less than 300 ms after the recorded one,
\* with double_click_to_fit enabled and no animation active; it publishes when
\* must_publish
DoubleClickFits(must_publish) ==
    ( /\ ~IsSome(elastic_animation)
      /\ interaction.double_click_to_fit
      /\ IsSome(position_in(cursor, bounds))
      /\ IsSome(last_click_time)
      /\ now - Unwrap(last_click_time) < 300
      /\ ButtonPressed ) =>
        /\ interaction_mode' = "Idle"
        /\ last_click_time' = None
        /\ Captured(action')
        /\ IF must_publish
           THEN /\ Publishes(action')
                /\ Published(action') =
                     [x_range |-> IF interaction.pan_x \/ interaction.zoom_x
                                  THEN None ELSE view_state.x_range,
                      y_range |-> IF interaction.pan_y \/ interaction.zoom_y
                                  THEN None ELSE view_state.y_range]
           ELSE ~Publishes(action') /\ view_state' = view_state

\* C10 as stated: such a press publishes a ViewState with every pan- or
\* zoom-enabled axis at None and the others unchanged, leaves the mode Idle
\* (even with Ctrl held), is captured and resets last_click_time.
C10_DoubleClickToFit == [][DoubleClickFits(TRUE)]_vars

\* C10 amended: the same, where the ViewState is published only if
\* on_view_change is set; without it the press is captured, the mode is Idle
\* and last_click_time is reset, and nothing is published.
C10_DoubleClickToFitWithCallback == [][DoubleClickFits(on_view_change)]_vars

\* a double-click with Ctrl held has reset the over-scrolled x axis to
\* auto-fit: the first press had started a selection, the second left Idle
C10_Witness ==
    /\ interaction.double_click_to_fit
    /\ interaction_mode = "Idle"
    /\ last_click_time = None
    /\ modifiers
    /\ IsSome(zoom_select_current)
    /\ Publishes(action) /\ Captured(action)
    /\ view_state.x_range = None

-----------------------------------------------------------------------------
(* Event consumption *)

\* a call of update() with a mouse event
MouseEvent == ButtonPressed \/ ButtonReleased \/ CursorMoved \/ WheelScrolled

\* C11: every update() call that, on a mouse event, publishes a ViewState or
\* changes interaction_mode returns a captured action, also while an elastic
\* animation is ticking.
C11_MouseEventsCaptured ==
    [][ ( /\ Publishes(action') \/ interaction_mode' # interaction_mode
          /\ MouseEvent ) => Captured(action') ]_vars

-----------------------------------------------------------------------------
(* Range resolution *)

ResolveArgs == Unwrap(fn_args)
ResolveResult == Unwrap(fn_result)

\* the resolution rule for one axis: range is the ViewState's, pan and hard the
\* axis's configuration, d its data bounds, res what was returned; a clamped
\* range that fits the padded bounds is required to be shifted into them only
\* if it is ascending or any_order
ResolvedByRule(range, pan, hard, d, res, any_order) ==
    LET i == ResolveArgs.interaction
        margin == Mul(d[2] - d[1], options.autofit_padding)
        b == IF IsSome(hard) THEN Unwrap(hard) ELSE d
        pad == Mul(b[2] - b[1], i.boundary_padding)
        padded_lo == b[1] - pad
        padded_hi == b[2] + pad
        r == Unwrap(range)
    IN  IF range = None THEN res = <<d[1] - margin, d[2] + margin>>
        ELSE IF ~(ResolveArgs.enforce_bounds /\ i.elastic /\ pan) THEN res = r
        ELSE IF r[2] - r[1] > padded_hi - padded_lo THEN res = <<padded_lo, padded_hi>>
        ELSE (any_order \/ r[1] <= r[2]) =>
               /\ res[2] - res[1] = r[2] - r[1]
               /\ padded_lo <= res[1] /\ res[1] <= padded_hi
               /\ padded_lo <= res[2] /\ res[2] <= padded_hi
               /\ (padded_lo <= r[1] /\ r[2] <= padded_hi) => res = r

ResolvedBothByRule(any_order) ==
    IsSome(fn_result) =>
        /\ ResolvedByRule(ResolveArgs.view_state.x_range, ResolveArgs.interaction.pan_x,
                          ResolveArgs.interaction.x_bounds, ResolveArgs.data[1],
                          ResolveResult[1], any_order)
        /\ ResolvedByRule(ResolveArgs.view_state.y_range, ResolveArgs.interaction.pan_y,
                          ResolveArgs.interaction.y_bounds, ResolveArgs.data[2],
                          ResolveResult[2], any_order)

-----------------------------------------------------------------------------
(* Data bounds *)

\* the points of a series as a set, a generator sampled at its point count
PointSetOf(s) ==
    IF s.points.kind = "Owned" THEN { s.points.pts[i] : i \in 1..Len(s.points.pts) }
    ELSE LET x0 == s.points.x_range[1]
             span == s.points.x_range[2] - s.points.x_range[1]
             n == s.points.points
         IN  { <<x0 + (k * span) \div (IF n > 1 THEN n - 1 ELSE 1),
                 generator_function(s.points.function,
                                    x0 + (k * span) \div (IF n > 1 THEN n - 1 ELSE 1))>> :
                 k \in 0..(n - 1) }

\* the points of the series whose index is not in the hidden set
VisiblePointSet(series, hidden) ==
    UNION { PointSetOf(series[i]) : i \in { j \in 1..Len(series) : (j - 1) \notin hidden } }

SetMin(S) == CHOOSE m \in S : \A e \in S : m <= e
SetMax(S) == CHOOSE m \in S : \A e \in S : m >= e

\* the bounding box the claim describes
DataBoxOf(V) ==
    IF V = {} THEN << <<0, 1000>>, <<0, 1000>> >>
    ELSE LET xs == { pt[1] : pt \in V }
             ys == { pt[2] : pt \in V }
         IN  IF SetMin(ys) = SetMax(ys)
             THEN << <<SetMin(xs), SetMax(xs)>>, <<SetMin(ys) - 500, SetMax(ys) + 500>> >>
             ELSE << <<SetMin(xs), SetMax(xs)>>, <<SetMin(ys), SetMax(ys)>> >>

\* C13: compute_data_ranges returns the tight bounding box of the points of
\* exactly the series not in the hidden set, generators sampled at their point
\* count; [0,1] x [0,1] when no visible series has a point; y widened by 0.5 on
\* each side, x unchanged, when the y extent is zero.
C13_DataBounds ==
    IsSome(fn_result) =>
        Unwrap(fn_result) = DataBoxOf(VisiblePointSet(Unwrap(fn_args).series,
                                                      Unwrap(fn_args).hidden))

\* the first of two series is hidden and the box is that of the second, a
\* generator of three samples
C13_Witness ==
    /\ IsSome(fn_result)
    /\ Len(Unwrap(fn_args).series) = 2
    /\ Unwrap(fn_args).hidden = {0}
    /\ Unwrap(fn_args).series[1].points.kind = "Owned"
    /\ Len(Unwrap(fn_args).series[1].points.pts) = 3
    /\ Unwrap(fn_args).series[2].points = Generator("Line", <<0, 4000>>, 3)
    /\ Unwrap(fn_result) = << <<0, 4000>>, <<0, 4000>> >>

\* C14: for every set of series and an auto-fit ViewState, both view ranges
\* returned by resolve_view_ranges have strictly positive span.
C14_NoZeroSpan ==
    IsSome(fn_result) =>
        /\ Unwrap(fn_result)[1][2] > Unwrap(fn_result)[1][1]
        /\ Unwrap(fn_result)[2][2] > Unwrap(fn_result)[2][1]

-----------------------------------------------------------------------------
(* Coordinate mapping *)

MapArgs == Unwrap(fn_args)
MapResult == Unwrap(fn_result)

\* the y axis is flipped: of two data points the higher one is drawn at the
\* smaller screen y
YAxisFlipped ==
    to_screen(MapResult.data[1], MapArgs.view_y[2], MapUniforms(MapArgs))[2]
        < to_screen(MapResult.data[1], MapArgs.view_y[1], MapUniforms(MapArgs))[2]

\* the round trip gives back the screen point moved by -origin
RoundTripFrom(origin) ==
    IsSome(fn_result) =>
        /\ MapResult.screen = <<MapArgs.screen[1] - origin[1],
                                MapArgs.screen[2] - origin[2]>>
        /\ YAxisFlipped

-----------------------------------------------------------------------------
(* Ticks *)

TickArgs == Unwrap(fn_args)
TickResult == Unwrap(fn_result)
TickLo == Min2(TickArgs.range_min, TickArgs.range_max)
TickHi == Max2(TickArgs.range_min, TickArgs.range_max)

RECURSIVE Pow10(_)
Pow10(k) == IF k = 0 THEN 1 ELSE 10 * Pow10(k - 1)

\* the steps of the form {1, 2, 5} x 10^k, from 0.001 up to 5000
NiceSteps == { f * Pow10(k) : f \in {1, 2, 5}, k \in 0..6 }

\* ticks is an arithmetic progression of multiples of step
ProgressionOf(ticks, step) ==
    /\ \A i \in 1..(Len(ticks) - 1) : ticks[i + 1] - ticks[i] = step
    /\ \A i \in 1..Len(ticks) : ticks[i] % step = 0

\* C16: for lo < hi and any TickConfig compute_ticks returns a non-empty,
\* strictly ascending sequence whose consecutive differences all equal one
\* step of the form {1,2,5} x 10^k, every tick is a multiple of that step, and
\* the call with lo and hi swapped returns the same sequence; a zero-span
\* range returns the single tick equal to the range value.
C16_TickMonotonicity ==
    IsSome(fn_result) =>
        /\ TickLo = TickHi => TickResult = <<TickArgs.range_min>>
        /\ TickLo < TickHi =>
            /\ Len(TickResult) >= 1
            /\ \A i \in 1..(Len(TickResult) - 1) : TickResult[i] < TickResult[i + 1]
            /\ \E step \in NiceSteps : ProgressionOf(TickResult, step)
            /\ TickResult = compute_ticks(TickArgs.range_max, TickArgs.range_min,
                                          TickArgs.config)

\* the range (4, -1.2), given high end first, with the default config: step 1,
\* ticks -2 .. 4
C16_Witness ==
    /\ IsSome(fn_result)
    /\ TickArgs.range_min = 4000
    /\ TickArgs.range_max = 0 - 1200
    /\ TickArgs.config = TickConfigDefault
    /\ TickResult = <<0 - 2000, 0 - 1000, 0, 1000, 2000, 3000, 4000>>

\* the step compute_ticks takes for the range in hand
TickStepOf == tick_step(TickLo, TickHi, TickArgs.config)

\* C17: for lo < hi the first tick is <= lo and the last tick is >= hi.
C17_TickCoverage ==
    (IsSome(fn_result) /\ TickLo < TickHi) =>
        /\ TickResult[1] <= TickLo
        /\ TickResult[Len(TickResult)] >= TickHi

\* C17 as the code has it: the first tick is the largest multiple of the step
\* that is <= lo, the last tick is the largest one that is <= hi + 0.001 step.
C17_TickCoverageWithinRange ==
    (IsSome(fn_result) /\ TickLo < TickHi) =>
        /\ TickResult[1] <= TickLo
        /\ TickResult[1] + TickStepOf > TickLo
        /\ TickResult[Len(TickResult)] <= TickHi + Mul(TickStepOf, 1)
        /\ TickResult[Len(TickResult)] + TickStepOf > TickHi + Mul(TickStepOf, 1)

\* the range (0, 0.9) with the default config: step 0.2, and 0.8 is the last
\* tick
C17_Witness ==
    /\ IsSome(fn_result)
    /\ TickArgs.range_min = 0
    /\ TickArgs.range_max = 900
    /\ TickArgs.config = TickConfigDefault
    /\ TickResult = <<0, 200, 400, 600, 800>>

-----------------------------------------------------------------------------
(* Geometry *)

GeometryArgs == Unwrap(fn_args)
Primitive == Unwrap(fn_result)
\* the frame was built (no panic on the way)
Built == IsSome(fn_result) /\ ~Primitive.panicked

\* the number of points of the k-th series given
PointCount(k) ==
    IF GeometryArgs.series[k].points.kind = "Owned"
    THEN Len(GeometryArgs.series[k].points.pts)
    ELSE GeometryArgs.series[k].points.points

RECURSIVE SumTo(_, _)
SumTo(F(_), k) == IF k = 0 THEN 0 ELSE F(k) + SumTo(F, k - 1)

\* the flat index (from 0) of the first point of the k-th series
FlatOffset(k) == SumTo(PointCount, k - 1)

\* the series the point of flat index i belongs to
SeriesOf(i) ==
    CHOOSE k \in 1..Len(GeometryArgs.series) :
        FlatOffset(k) <= i /\ i < FlatOffset(k) + PointCount(k)

SegmentsOf(k) == Max2(PointCount(k) - 1, 0)

\* C18: every line quad joins two points of consecutive flat indices i and
\* i + 1 that belong to the same input series, and there are at most
\* sum over series of max(point_count - 1, 0) quads.
C18_LineContinuity ==
    Built =>
        /\ \A q \in 1..Len(Primitive.line_vertices) :
               /\ Primitive.line_vertices[q].to = Primitive.line_vertices[q].from + 1
               /\ Primitive.line_vertices[q].from >= 0
               /\ Primitive.line_vertices[q].to < Len(Primitive.points)
               /\ SeriesOf(Primitive.line_vertices[q].from)
                      = SeriesOf(Primitive.line_vertices[q].to)
        /\ Len(Primitive.line_vertices) <= SumTo(SegmentsOf, Len(GeometryArgs.series))

\* a series of three points followed by a generator of three samples: four
\* quads, none from flat index 2 to 3
C18_Witness ==
    /\ Built
    /\ Len(GeometryArgs.series) = 2
    /\ PointCount(1) = 3
    /\ PointCount(2) = 3
    /\ Len(Primitive.line_vertices) = 4
    /\ \A q \in 1..4 : Primitive.line_vertices[q].from # 2

\* the positions of the markers of the frame
MarkerPositions == [i \in 1..Len(Primitive.points) |-> Primitive.points[i].position]

\* the flat indices the line quads touch
LineIndices ==
    UNION { { Primitive.line_vertices[q].from, Primitive.line_vertices[q].to } :
              q \in 1..Len(Primitive.line_vertices) }

\* C19: the markers and line vertices of a frame contain no point of a series
\* whose index is in the hidden set: the series that contribute geometry are
\* exactly those that contribute to the data bounding box.
C19_HiddenSeriesExcluded ==
    Built =>
        /\ MarkerPositions = visible_points_from(GeometryArgs.series, GeometryArgs.hidden, 0)
        /\ \A i \in LineIndices : (SeriesOf(i) - 1) \notin GeometryArgs.hidden

\* the values the k-th series is coloured by: its explicit array, else its y
SeriesValue(k, j) ==
    IF IsSome(GeometryArgs.series[k].color.values)
    THEN Unwrap(GeometryArgs.series[k].color.values)[j]
    ELSE series_points(GeometryArgs.series[k])[j][2]
SeriesValues(k) == { SeriesValue(k, j) : j \in 1..PointCount(k) }

\* the colour a gradient mode has at t = 0, 0.5 and 1
ColorAt(color_mode, t) ==
    IF color_mode.mode = "Colormap" THEN <<t, t, t>>
    ELSE IF t = 0 THEN color_mode.low
    ELSE IF t = 1000 THEN color_mode.high
    ELSE <<(color_mode.low[1] + color_mode.high[1]) \div 2,
           (color_mode.low[2] + color_mode.high[2]) \div 2,
           (color_mode.low[3] + color_mode.high[3]) \div 2>>

\* the colour the frame gives the j-th point of the k-th series
ColorOfPoint(k, j) == Primitive.points[FlatOffset(k) + j].color

\* the k-th series has its low colour at its minimum, its high colour at its
\* maximum, and the midpoint blend everywhere when its values are all equal
GradientEndpoints(k) ==
    LET color_mode == GeometryArgs.series[k].color
    IN  \A j \in 1..PointCount(k) :
            /\ (\A e \in SeriesValues(k) : e = SeriesValue(k, j))
                   => ColorOfPoint(k, j) = ColorAt(color_mode, 500)
            /\ (\E e \in SeriesValues(k) : e > SeriesValue(k, j))
                   /\ (\A e \in SeriesValues(k) : e >= SeriesValue(k, j))
                   => ColorOfPoint(k, j) = ColorAt(color_mode, 0)
            /\ (\E e \in SeriesValues(k) : e < SeriesValue(k, j))
                   /\ (\A e \in SeriesValues(k) : e <= SeriesValue(k, j))
                   => ColorOfPoint(k, j) = ColorAt(color_mode, 1000)

\* C20: for every series coloured by ValueGradient or Colormap, also among
\* other series of different y ranges, the points at the series' minimum
\* value get the low colour (the colormap at 0), those at its maximum the high
\* colour (the colormap at 1), and a series of equal values gets t = 0.5.
C20_GradientEndpoints ==
    Built =>
        \A k \in 1..Len(GeometryArgs.series) :
            GeometryArgs.series[k].color.mode \in {"ValueGradient", "Colormap"}
                => GradientEndpoints(k)

\* the t the claim gives the j-th point of the k-th series from its own
\* explicit array
ExplicitT(k, j) ==
    LET v == Unwrap(GeometryArgs.series[k].color.values)
        vs == { v[i] : i \in 1..Len(v) }
        lo == SetMin(vs)
        hi == SetMax(vs)
    IN  IF hi = lo THEN 500 ELSE ((v[j] - lo) * 1000) \div (hi - lo)

\* the colour a gradient mode has at t
ColorAtT(color_mode, t) ==
    IF color_mode.mode = "Colormap" THEN colormap_sample(color_mode.name, t)
    ELSE lerp_color(color_mode.low, color_mode.high, t)

\* the k-th series carries an explicit array as long as its point list
HasExplicitValues(k) ==
    /\ GeometryArgs.series[k].color.mode \in {"ValueGradient", "Colormap"}
    /\ IsSome(GeometryArgs.series[k].color.values)
    /\ Len(Unwrap(GeometryArgs.series[k].color.values)) = PointCount(k)

\* C21: for a series with an explicit values array as long as its point
\* list, the value used for its j-th point is values[j] wherever the series
\* stands in the list, and building the geometry never aborts on an index
\* out of range.
C21_ExplicitValues ==
    IsSome(fn_result) =>
        /\ ~Primitive.panicked
        /\ \A k \in 1..Len(GeometryArgs.series) :
               HasExplicitValues(k) =>
                   \A j \in 1..PointCount(k) :
                       ColorOfPoint(k, j)
                           = ColorAtT(GeometryArgs.series[k].color, ExplicitT(k, j))

-----------------------------------------------------------------------------
(* Colormaps *)

SampleArgs == Unwrap(fn_args)
SampleResult == Unwrap(fn_result)

\* the first and the last colour of a colormap
FirstStop(name) ==
    IF name = "Grayscale" THEN <<0, 0, 0>> ELSE colormap_palette(name)[1][2]
LastStop(name) ==
    IF name = "Grayscale" THEN <<1000, 1000, 1000>>
    ELSE colormap_palette(name)[Len(colormap_palette(name))][2]

\* C22: for every colormap name and every t, below 0 and above 1 included,
\* sample(t) equals sample(min(max(t, 0), 1)), every channel lies in [0, 1],
\* sample(0) is the first palette stop and sample(1) the last.
C22_SampleClamps ==
    IsSome(fn_result) =>
        /\ SampleResult = colormap_sample(SampleArgs.name,
                                          Min2(Max2(SampleArgs.t, 0), 1000))
        /\ \A c \in 1..3 : SampleResult[c] >= 0 /\ SampleResult[c] <= 1000
        /\ SampleArgs.t <= 0 => SampleResult = FirstStop(SampleArgs.name)
        /\ SampleArgs.t >= 1000 => SampleResult = LastStop(SampleArgs.name)

\* Viridis sampled at 1.5 is its last stop
C22_Witness ==
    /\ IsSome(fn_result)
    /\ SampleArgs.name = "Viridis"
    /\ SampleArgs.t = 1500
    /\ SampleResult = <<993, 906, 144>>

-----------------------------------------------------------------------------
(* Press transitions *)

\* the press in hand is the second of a double-click
IsDoubleClick ==
    /\ interaction.double_click_to_fit
    /\ IsSome(last_click_time)
    /\ now - Unwrap(last_click_time) < 300

\* the cursor relative to the widget
PressPosition == <<cursor[1] - bounds.x, cursor[2] - bounds.y>>
CursorInside ==
    /\ bounds.x <= cursor[1] /\ cursor[1] < bounds.x + bounds.width
    /\ bounds.y <= cursor[2] /\ cursor[2] < bounds.y + bounds.height

\* what a press does to the session
PressOutcome ==
    IF ~CursorInside
    THEN /\ UNCHANGED <<interaction_mode, drag_start, drag_start_view, last_cursor,
                        last_click_time, modifiers, zoom_select_current,
                        elastic_animation, view_state>>
         /\ action' = None
    ELSE IF IsDoubleClick THEN TRUE
    ELSE IF interaction.zoom_select /\ modifiers
    THEN /\ interaction_mode' = "ZoomSelecting"
         /\ drag_start' = Some(PressPosition)
         /\ zoom_select_current' = Some(PressPosition)
    ELSE IF interaction.pan_x \/ interaction.pan_y
    THEN /\ interaction_mode' = "Panning"
         /\ drag_start' = Some(PressPosition)
         /\ drag_start_view' = Some(with_ranges(view_x, view_y))
    ELSE /\ interaction_mode' = interaction_mode
         /\ ~Captured(action')

\* C23: from Idle with no animation a left press inside the widget that is
\* not a double-click enters ZoomSelecting with drag_start =
\* zoom_select_current = the press position when zoom_select is enabled and
\* Ctrl is held; otherwise enters Panning when pan_x or pan_y is enabled, with
\* drag_start the press position relative to the widget and drag_start_view
\* the resolved x and y ranges, both explicit; otherwise the mode is unchanged
\* and the event is not captured.  A press outside the widget changes nothing.
C23_PressTransitions ==
    [][ ( /\ interaction_mode = "Idle"
          /\ ~IsSome(elastic_animation)
          /\ ButtonPressed ) => PressOutcome ]_vars

\* a Ctrl-press in a widget that also pans has started a selection, and no
\* pan was ever started
C23_Witness ==
    /\ interaction_mode = "ZoomSelecting"
    /\ interaction.pan_x
    /\ modifiers
    /\ IsSome(drag_start)
    /\ drag_start = zoom_select_current
    /\ drag_start_view = None
    /\ Captured(action)

-----------------------------------------------------------------------------
(* Elastic resistance *)

ElasticArgs == Unwrap(fn_args)
ElasticResult == Unwrap(fn_result)
ElasticPad ==
    ((Unwrap(ElasticArgs.bounds)[2] - Unwrap(ElasticArgs.bounds)[1])
        * ElasticArgs.padding_frac) \div 1000
ElasticMin == Unwrap(ElasticArgs.bounds)[1] - ElasticPad
ElasticMax == Unwrap(ElasticArgs.bounds)[2] + ElasticPad
RawSpan == ElasticArgs.range[2] - ElasticArgs.range[1]
\* elastic_limit * (range span)
OverscrollLimit == (RawSpan * ElasticArgs.elastic_limit) \div 1000
\* how far the result reaches beyond the padded bounds on either side
OverLow == ElasticMin - ElasticResult[1]
OverHigh == ElasticResult[2] - ElasticMax

SameSpanAndFixedInside ==
    /\ ElasticResult[2] - ElasticResult[1] = RawSpan
    /\ (ElasticArgs.range[1] >= ElasticMin /\ ElasticArgs.range[2] <= ElasticMax)
           => ElasticResult = ElasticArgs.range

\* C24: for any raw range the range produced by apply_elastic_resistance
\* reaches beyond the padded bounds by strictly less than elastic_limit *
\* span on the low side and on the high side, has the span of the raw range,
\* and is the raw range when that lies inside the padded bounds.
C24_ElasticBounded ==
    IsSome(fn_result) =>
        /\ OverLow < OverscrollLimit
        /\ OverHigh < OverscrollLimit
        /\ SameSpanAndFixedInside

\* C24 as the code has it: the side the range was dragged past is damped to
\* at most elastic_limit * span (the limit itself once 1 - exp(-over / limit)
\* rounds to 1); the other side stays within the limit when the range is no
\* wider than the padded bounds.
C24_ElasticBoundedOnDraggedSide ==
    IsSome(fn_result) =>
        /\ ElasticArgs.range[1] < ElasticMin
               => OverLow >= 0 /\ OverLow <= OverscrollLimit
        /\ (ElasticArgs.range[1] >= ElasticMin /\ ElasticArgs.range[2] > ElasticMax)
               => OverHigh >= 0 /\ OverHigh <= OverscrollLimit
        /\ RawSpan <= ElasticMax - ElasticMin
               => OverLow <= OverscrollLimit /\ OverHigh <= OverscrollLimit
        /\ SameSpanAndFixedInside

\* the range (-2, 1) against bounds (0, 4) padded by 0.2, elastic_limit 0.3:
\* 1.8 past the low bound, damped to 0.778
C24_Witness ==
    /\ IsSome(fn_result)
    /\ ElasticArgs.range = <<0 - 2000, 1000>>
    /\ ElasticArgs.padding_frac = 50
    /\ ElasticArgs.elastic_limit = 300
    /\ OverLow > 0
    /\ OverLow < OverscrollLimit

-----------------------------------------------------------------------------
(* Zoom selection *)

\* the sides of the selection rectangle, in pixels
SelectionDx == Abs(Unwrap(zoom_select_current)[1] - Unwrap(drag_start)[1])
SelectionDy == Abs(Unwrap(zoom_select_current)[2] - Unwrap(drag_start)[2])

\* the selection changes an axis: it is enabled for zoom and spans over 5 px
SelectionChangesAxis ==
    /\ IsSome(drag_start) /\ IsSome(zoom_select_current)
    /\ \/ interaction.zoom_x /\ SelectionDx > 5
       \/ interaction.zoom_y /\ SelectionDy > 5

\* C25: on left-button release in ZoomSelecting a ViewState is published only
\* if the selection changed at least one axis range; a selection of at most
\* 5 px on every zoom-enabled axis publishes nothing.  In every case the mode
\* returns to Idle and the anchor and the current corner are cleared.
C25_DegenerateSelectionNoOp ==
    [][ ( /\ interaction_mode = "ZoomSelecting"
          /\ ~IsSome(elastic_animation)
          /\ ButtonReleased ) =>
            /\ interaction_mode' = "Idle"
            /\ drag_start' = None
            /\ zoom_select_current' = None
            /\ Publishes(action') => SelectionChangesAxis ]_vars

-----------------------------------------------------------------------------
(* Disabled axes *)

\* the published ViewState leaves the x (y) axis as it is unless x_on (y_on)
KeepsDisabledAxes(x_on, y_on) ==
    /\ ~x_on => Published(action').x_range = view_state.x_range
    /\ ~y_on => Published(action').y_range = view_state.y_range

\* C26: a ViewState published by a Panning cursor-move equals the current
\* ViewState on every axis whose pan flag is off; one published by a wheel
\* zoom or a zoom-select release equals it on every axis whose zoom flag is
\* off: an axis at auto-fit that is not enabled stays None.
C26_DisabledAxesUntouched ==
    [][ ( /\ Publishes(action')
          /\ ~IsSome(elastic_animation) ) =>
            /\ (interaction_mode = "Panning" /\ CursorMoved)
                   => KeepsDisabledAxes(interaction.pan_x, interaction.pan_y)
            /\ WheelScrolled
                   => KeepsDisabledAxes(interaction.zoom_x, interaction.zoom_y)
            /\ (interaction_mode = "ZoomSelecting" /\ ButtonReleased)
                   => KeepsDisabledAxes(interaction.zoom_x, interaction.zoom_y) ]_vars

\* a pan of the x axis alone has published a new x range and the y axis is
\* still at auto-fit
C26_Witness ==
    /\ interaction_mode = "Panning"
    /\ drag_counted
    /\ Publishes(action)
    /\ interaction.pan_x /\ ~interaction.pan_y
    /\ IsSome(view_state.x_range)
    /\ view_state.y_range = None

-----------------------------------------------------------------------------
(* Unconfigured branches *)

\* the modes and the animation need their flags
ModesNeedFlags ==
    /\ interaction_mode = "Panning" => (interaction.pan_x \/ interaction.pan_y)
    /\ interaction_mode = "ZoomSelecting" => interaction.zoom_select
    /\ IsSome(elastic_animation) => interaction.elastic

\* update() under InteractionConfig::none() returns nothing and leaves the
\* session as it is
NoneDoesNothing ==
    ( /\ interaction = InteractionNone
      /\ UpdateCall ) =>
        /\ action' = None
        /\ UNCHANGED <<interaction_mode, drag_start, drag_start_view, last_cursor,
                       last_click_time, modifiers, zoom_select_current,
                       elastic_animation, view_state>>

\* a wheel event publishes only with zoom_x or zoom_y; during_animation: also
\* when it arrives while an elastic animation is active
WheelNeedsZoom(during_animation) ==
    ( /\ Publishes(action')
      /\ ~interaction.zoom_x /\ ~interaction.zoom_y
      /\ during_animation \/ ~IsSome(elastic_animation) ) => ~WheelScrolled

\* every step keeps the three together (the initial state is Idle with no
\* animation)
UnconfiguredUnreachable(during_animation) ==
    /\ ModesNeedFlags'
    /\ WheelNeedsZoom(during_animation)
    /\ NoneDoesNothing

\* C27: in every reachable state mode = Panning only if pan_x or pan_y is
\* enabled, mode = ZoomSelecting only if zoom_select is enabled, an elastic
\* animation exists only if elastic is enabled, a wheel event publishes a
\* ViewState only if zoom_x or zoom_y is enabled; under
\* InteractionConfig::none() update() returns no action and changes no
\* session state for any event.
C27_UnconfiguredUnreachable == [][UnconfiguredUnreachable(TRUE)]_vars

\* C27 as the code has it: the wheel event that arrives during an elastic
\* animation ticks the animation, which publishes its frame whatever the zoom
\* flags; the wheel branch itself publishes only with zoom_x or zoom_y.
C27_UnconfiguredUnreachableOutsideAnimation == [][UnconfiguredUnreachable(FALSE)]_vars

\* a pan is under way in a widget with neither zoom nor zoom selection
C27_Witness ==
    /\ interaction_mode = "Panning"
    /\ interaction.pan_x
    /\ ~interaction.zoom_x /\ ~interaction.zoom_y /\ ~interaction.zoom_select
    /\ drag_counted
    /\ Publishes(action)

-----------------------------------------------------------------------------
(* Session fields *)

\* C28: after any sequence of events, whenever interaction_mode is Idle the
\* drag anchor drag_start, the snapshot drag_start_view and the selection
\* corner zoom_select_current are all None.
C28_IdleHasNoDragData ==
    interaction_mode = "Idle" =>
        /\ drag_start = None
        /\ drag_start_view = None
        /\ zoom_select_current = None

\* C29: in every reachable state interaction_mode = Panning implies drag_start
\* is Some and drag_start_view is Some with both x_range and y_range Some, and
\* interaction_mode = ZoomSelecting implies drag_start and zoom_select_current
\* are both Some.
C29_DragDataPresent ==
    /\ interaction_mode = "Panning" =>
           /\ IsSome(drag_start)
           /\ IsSome(drag_start_view)
           /\ IsSome(Unwrap(drag_start_view).x_range)
           /\ IsSome(Unwrap(drag_start_view).y_range)
    /\ interaction_mode = "ZoomSelecting" =>
           /\ IsSome(drag_start)
           /\ IsSome(zoom_select_current)

\* a pan started from a ViewState at auto-fit on both axes: the snapshot
\* holds both ranges
C29_Witness ==
    /\ interaction_mode = "Panning"
    /\ view_state = auto_fit
    /\ IsSome(drag_start)
    /\ IsSome(drag_start_view)
    /\ IsSome(Unwrap(drag_start_view).x_range)
    /\ IsSome(Unwrap(drag_start_view).y_range)

-----------------------------------------------------------------------------
(* Hard bounds *)

\* the padded x bounds [x_bounds.lo - pad, x_bounds.hi + pad]
HardPad == Mul(Unwrap(interaction.x_bounds)[2] - Unwrap(interaction.x_bounds)[1],
               interaction.boundary_padding)
HardMin == Unwrap(interaction.x_bounds)[1] - HardPad
HardMax == Unwrap(interaction.x_bounds)[2] + HardPad

\* the last update() call published an explicit x_range under hard x bounds
PublishedHardX ==
    /\ ~interaction.elastic
    /\ IsSome(interaction.x_bounds)
    /\ Publishes(action)
    /\ IsSome(Published(action).x_range)

\* C30: with elastic disabled and x_bounds configured, every explicit x_range
\* published through on_view_change lies inside
\* [x_bounds.lo - pad, x_bounds.hi + pad], a zoom selection included.
C30_HardBoundsHold ==
    PublishedHardX =>
        /\ HardMin <= Unwrap(Published(action).x_range)[1]
        /\ Unwrap(Published(action).x_range)[2] <= HardMax

====
